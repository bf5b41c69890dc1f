--------------------------- MODULE RestoreProofs ---------------------------
(***************************************************************************)
(* A restore never shows a part of a file, returns only when every file is *)
(* in place, keeps what it restored, leaves no staging file and, without   *)
(* Overwrite, touches nothing that was there: for any manifest, any number *)
(* of runs, and whatever fails, is damaged or cut short.                   *)
(***************************************************************************)
EXTENDS Restore, SequenceTheorems, TLAPS

OnFile == {"exists", "open", "buffer", "fetch", "flush", "rename", "fsync"}
Looping == OnFile \cup {"next", "ok"}
RunSteps == Looping \cup {"idle", "load", "dirs", "error"}

Contents == Seq(Blobs \cup {Garbage})

Runs == [step : RunSteps, todo : SUBSET Files, file : Files \cup {None},
         temp : Contents, flushed : BOOLEAN, restored : SUBSET Files,
         skipped : SUBSET Files, cancelled : BOOLEAN]

TypeOK ==
    /\ setup \in Setup /\ dir \in {"none", "new", "old"}
    /\ tgt \in [Files -> Contents \cup {None, Foreign}]
    /\ disk \in [Files -> Contents \cup {None, Foreign}]
    /\ staged \subseteq Files /\ blobs \subseteq Blobs /\ acked \subseteq Files
    /\ run \in Runs

(* What is, and what a power loss may leave, under the target names.       *)
WholeInv ==
    /\ loose = {}
    /\ \A f \in Files : /\ tgt[f] \in {None, Foreign, Chunks[f]}
                        /\ disk[f] \in {None, Foreign, Chunks[f]}

(* A restored file is under its name durably, if the directory is.         *)
AckedInv ==
    setup.fresh = FALSE =>
        dir = "old" /\ \A f \in acked : tgt[f] # None /\ disk[f] # None

(* Files that were there before are there durably.                         *)
ForeignInv ==
    "foreign" \notin setup.faults =>
        \A f \in Files : tgt[f] = Foreign => disk[f] = Foreign /\ dir = "old"

(* What the run under way has verified, of its file ...                    *)
FileInv ==
    LET f == run.file IN
    /\ run.step \in OnFile => f \in Restorable
    /\ run.step \in {"exists", "open"} => run.temp = <<>>
    /\ run.step = "exists" => setup.overwrite = FALSE
    /\ run.step = "buffer" => Kind[f] \in {"small", "large"}
    /\ run.step = "fetch" => Kind[f] # "small"
    /\ run.step = "fetch" /\ Kind[f] = "chunked" =>
         /\ Len(run.temp) <= Len(Chunks[f])
         /\ \A i \in 1 .. Len(run.temp) : run.temp[i] = Chunks[f][i]
    /\ run.step \in {"flush", "rename"} => run.temp = Chunks[f]
    /\ run.step = "rename" => run.flushed = TRUE
    /\ run.step = "fsync" => tgt[f] # None
    /\ /\ run.step \in OnFile \ {"exists", "fsync"}
       /\ setup.overwrite = FALSE /\ "foreign" \notin setup.faults
       => tgt[f] # Foreign

(* ... and of the files behind it.                                         *)
LoopInv ==
    /\ run.step \in Looping => \A f \in Restorable \ run.todo :
         tgt[f] # None /\ (setup.overwrite = TRUE => f \in run.restored)
    /\ run.step = "ok" => run.todo = {}

(* Only the file at hand has a staging file of this run, unless it was cut *)
(* off or could not unlink it.                                             *)
StagingInv ==
    /\ run.step \in {"fetch", "flush", "rename"} => staged \subseteq {run.file}
    /\ run.step \notin {"fetch", "flush", "rename", "error", "idle"} => staged = {}
    /\ run.step = "error" /\ ~Fault("unlink") => staged = {}

RunInv == FileInv /\ LoopInv /\ StagingInv

RestoreInv == TypeOK /\ WholeInv /\ AckedInv /\ ForeignInv /\ RunInv

-----------------------------------------------------------------------------
(* Most leaves are first-order: Zenon unless a leaf names another prover.  *)
USE Zenon

(* Updates of the run.                                                     *)
LEMMA Moved ==
  ASSUME run \in Runs, NEW s \in RunSteps, To(s)
  PROVE  /\ run' \in Runs /\ run'.step = s /\ run'.todo = run.todo /\ run'.file = run.file
         /\ run'.temp = run.temp /\ run'.flushed = run.flushed
         /\ run'.restored = run.restored
BY DEF To, Runs

(* A file that is done leaves the list, as restored ...                    *)
LEMMA FileDone ==
  ASSUME run \in Runs, NEW f \in Files, f = run.file, Restored
  PROVE  /\ run' \in Runs /\ run'.step = "next" /\ run'.todo = run.todo \ {f}
         /\ run'.restored = run.restored \cup {f}
<1> DEFINE a == [run EXCEPT !.step = "next", !.todo = @ \ {f}]
<1>1. /\ a \in Runs /\ a.step = "next" /\ a.todo = run.todo \ {f}
      /\ a.restored = run.restored
  BY DEF Runs, RunSteps, Looping
<1>2. run' = [a EXCEPT !.restored = @ \cup {f}]
  BY DEF Restored, Runs
<1> HIDE DEF a
<1> QED
  BY <1>1, <1>2 DEF Runs

(* ... or as skipped.                                                      *)
LEMMA FileSkipped ==
  ASSUME run \in Runs, NEW f \in Files, f = run.file, SkipFile
  PROVE  /\ run' \in Runs /\ run'.step = "next" /\ run'.todo = run.todo \ {f}
         /\ run'.restored = run.restored
<1> DEFINE a == [run EXCEPT !.step = "next", !.todo = @ \ {f}]
<1>1. /\ a \in Runs /\ a.step = "next" /\ a.todo = run.todo \ {f}
      /\ a.restored = run.restored
  BY DEF Runs, RunSteps, Looping
<1>2. run' = [a EXCEPT !.skipped = @ \cup {f}]
  BY DEF SkipFile, Runs
<1> HIDE DEF a
<1> QED
  BY <1>1, <1>2 DEF Runs

(* The next file starts with an empty staging content.                     *)
LEMMA FileBegun ==
  ASSUME run \in Runs, NEW s \in RunSteps, NEW f \in Files,
         run' = [run EXCEPT !.step = s, !.file = f, !.temp = <<>>, !.flushed = FALSE]
  PROVE  /\ run' \in Runs /\ run'.step = s /\ run'.file = f /\ run'.temp = <<>>
         /\ run'.todo = run.todo /\ run'.restored = run.restored
<1> DEFINE a == [run EXCEPT !.step = s, !.file = f]
<1>1. /\ a \in Runs /\ a.step = s /\ a.file = f
      /\ a.todo = run.todo /\ a.restored = run.restored
  BY DEF Runs
<1>2. run' = [a EXCEPT !.temp = <<>>, !.flushed = FALSE]
  BY DEF Runs
<1>3. <<>> \in Contents
  BY SMT DEF Contents
<1> HIDE DEF a
<1> QED
  BY <1>1, <1>2, <1>3 DEF Runs

(* Writing to the staging file.                                            *)
LEMMA TempWritten ==
  ASSUME run \in Runs, NEW s \in RunSteps, NEW t \in Contents,
         run' = [run EXCEPT !.step = s, !.temp = t]
  PROVE  /\ run' \in Runs /\ run'.step = s /\ run'.temp = t /\ run'.todo = run.todo
         /\ run'.file = run.file /\ run'.restored = run.restored
BY DEF Runs

-----------------------------------------------------------------------------
(* A step of the run that leaves the target directory as it is.            *)
LEMMA RunStepFrame ==
  ASSUME RestoreInv, UNCHANGED <<setup, dir, tgt, disk, loose, acked>>, Frame,
         run' \in Runs, staged' \subseteq Files, RunInv'
  PROVE  RestoreInv'
<1>1. TypeOK'
  BY DEF RestoreInv, TypeOK, Frame
<1>2. WholeInv' /\ AckedInv' /\ ForeignInv'
  BY DEF RestoreInv, WholeInv, AckedInv, ForeignInv
<1> QED
  BY <1>1, <1>2 DEF RestoreInv

(* An error ends the run, and Cleanup takes the staging file along.        *)
LEMMA Failed ==
  ASSUME RestoreInv, Fail, run.step \notin Stopped, setup' = setup
  PROVE  /\ run' \in Runs /\ staged' \subseteq Files /\ RunInv'
<1>1. run' \in Runs /\ run'.step = "error"
  BY DEF RestoreInv, TypeOK, Fail, Runs, RunSteps
<1>2. FileInv' /\ LoopInv'
  BY <1>1 DEF FileInv, LoopInv, OnFile, Looping
<1>3. StagingInv'
  <2>1. staged \subseteq {run.file}
    BY DEF StagingInv, RestoreInv, RunInv, Stopped
  <2> QED
    BY <1>1, <2>1 DEF StagingInv, Fail, Fault
<1>4. staged' \subseteq Files
  BY DEF RestoreInv, TypeOK, Fail
<1> QED
  BY <1>1, <1>2, <1>3, <1>4 DEF RunInv

(* ... so that a failing step keeps the invariant.                         *)
LEMMA FailKeeps ==
  ASSUME RestoreInv, Fail, run.step \notin Stopped, Frame, NoWrite PROVE RestoreInv'
<1>1. UNCHANGED <<setup, dir, tgt, disk, loose, acked>>
  BY DEF Frame, NoWrite
<1>2. run' \in Runs /\ staged' \subseteq Files /\ RunInv'
  BY <1>1, Failed
<1> QED
  BY <1>1, <1>2, RunStepFrame

(* A run that has not reached a file knows nothing of any.                 *)
LEMMA NotLooping ==
  ASSUME run'.step \in {"idle", "load", "dirs"}, run'.step # "idle" => staged' = {}
  PROVE  RunInv'
<1>1. FileInv' /\ LoopInv'
  BY DEF FileInv, LoopInv, OnFile, Looping
<1>2. StagingInv'
  BY DEF StagingInv
<1> QED
  BY <1>1, <1>2 DEF RunInv

(* A new run knows nothing yet.                                            *)
LEMMA BeginKeeps == ASSUME RestoreInv, Begin PROVE RestoreInv'
<1>1. NoRun \in Runs /\ <<>> \in Contents
  BY SMT DEF NoRun, Runs, RunSteps, Contents
<1>2. run' \in Runs /\ run'.step = "load"
  BY <1>1 DEF Begin, Runs, RunSteps
<1>3. UNCHANGED <<setup, dir, tgt, disk, loose, blobs, acked>> /\ staged' = {}
  BY DEF Begin
<1>4. RunInv'
  BY <1>2, <1>3, NotLooping
<1>5. TypeOK'
  BY <1>2, <1>3 DEF RestoreInv, TypeOK
<1>6. WholeInv' /\ AckedInv' /\ ForeignInv'
  BY <1>3 DEF RestoreInv, WholeInv, AckedInv, ForeignInv
<1> QED
  BY <1>4, <1>5, <1>6 DEF RestoreInv

(* Reading the manifest touches no file.                                   *)
LEMMA LoadManifestKeeps == ASSUME RestoreInv, LoadManifest PROVE RestoreInv'
<1>1. CASE Fail
  BY <1>1, FailKeeps DEF LoadManifest, At, Stopped
<1>2. CASE To("dirs") /\ UNCHANGED staged
  <2>1. UNCHANGED <<setup, dir, tgt, disk, loose, acked>> /\ run.step = "load"
    BY DEF LoadManifest, Frame, NoWrite, At
  <2>2. run' \in Runs /\ run'.step = "dirs"
    BY <1>2, Moved DEF RestoreInv, TypeOK, RunSteps
  <2>3. RunInv'
    BY <1>2, <2>1, <2>2, NotLooping DEF RestoreInv, RunInv, StagingInv
  <2>4. staged' \subseteq Files
    BY <1>2 DEF RestoreInv, TypeOK
  <2> QED
    BY <2>1, <2>2, <2>3, <2>4, RunStepFrame DEF LoadManifest
<1> QED
  BY <1>1, <1>2 DEF LoadManifest

(* A directory that is made is new; one that is there stays.               *)
LEMMA MakeDirsKeeps == ASSUME RestoreInv, MakeDirs PROVE RestoreInv'
<1>1. /\ UNCHANGED <<setup, tgt, disk, loose, acked, blobs>> /\ run.step = "dirs"
      /\ dir' \in {dir, Made}
  BY DEF MakeDirs, Frame, At
<1>2. dir' \in {"none", "new", "old"} /\ (dir = "old" => dir' = "old")
  BY <1>1 DEF Made, RestoreInv, TypeOK
<1>3. WholeInv' /\ AckedInv' /\ ForeignInv'
  BY <1>1, <1>2 DEF RestoreInv, WholeInv, AckedInv, ForeignInv
<1>4. run' \in Runs /\ staged' \subseteq Files /\ RunInv'
  <2>1. CASE Fail
    BY <1>1, <2>1, Failed DEF Stopped
  <2>2. CASE run' = [run EXCEPT !.step = "next", !.todo = Files] /\ UNCHANGED staged
    <3>1. run' \in Runs /\ run'.step = "next" /\ run'.todo = Files
      BY <2>2 DEF RestoreInv, TypeOK, Runs, RunSteps, Looping
    <3>2. FileInv'
      BY <3>1 DEF FileInv, OnFile
    <3>3. LoopInv'
      BY <3>1 DEF LoopInv, Restorable
    <3>4. StagingInv'
      BY <1>1, <2>2, <3>1 DEF StagingInv, RestoreInv, RunInv
    <3> QED
      BY <2>2, <3>1, <3>2, <3>3, <3>4 DEF RunInv, RestoreInv, TypeOK
  <2> QED
    BY <2>1, <2>2 DEF MakeDirs
<1> QED
  BY <1>1, <1>2, <1>3, <1>4 DEF RestoreInv, TypeOK

-----------------------------------------------------------------------------
(* The staging file holds the first pieces of the file.                    *)
Part(temp, f) ==
    /\ Len(temp) <= Len(Chunks[f])
    /\ \A i \in 1 .. Len(temp) : temp[i] = Chunks[f][i]

(* A step from one part of the work on a file to the next.                 *)
LEMMA StaysOnFile ==
  ASSUME RestoreInv, NEW f \in Files, f = run.file, run.step \in OnFile \ {"fsync"},
         run' \in Runs, run'.step \in OnFile \ {"exists", "fsync"},
         run'.file = f, run'.todo = run.todo, run'.restored = run.restored,
         run.step = "exists" => tgt[f] = None,
         run'.step = "open" => run'.temp = <<>>,
         run'.step = "buffer" => Kind[f] \in {"small", "large"},
         run'.step = "fetch" => Kind[f] # "small",
         run'.step = "fetch" /\ Kind[f] = "chunked" => Part(run'.temp, f),
         run'.step \in {"flush", "rename"} => run'.temp = Chunks[f],
         run'.step = "rename" => run'.flushed = TRUE,
         run.step \in {"fetch", "flush", "rename"} => run'.step \in {"fetch", "flush", "rename"},
         \/ staged' = staged
         \/ staged' = staged \cup {f} /\ run'.step \in {"fetch", "flush", "rename"},
         Frame, NoWrite
  PROVE  RestoreInv'
<1>1. UNCHANGED <<setup, dir, tgt, disk, loose, acked>>
  BY DEF Frame, NoWrite
<1>2. f \in Restorable
  BY DEF RestoreInv, RunInv, FileInv
<1>3. /\ run'.step \in OnFile \ {"exists", "fsync"}
      /\ setup.overwrite = FALSE /\ "foreign" \notin setup.faults
      => tgt[f] # Foreign
  BY RestoreAssumption DEF RestoreInv, RunInv, FileInv
<1>4. FileInv'
  BY <1>1, <1>2, <1>3 DEF FileInv, Part
<1>5. LoopInv'
  <2>1. run'.step # "ok"
    BY DEF OnFile
  <2> QED
    BY <1>1, <2>1 DEF LoopInv, RestoreInv, RunInv, Looping
<1>6. StagingInv'
  <2>1. staged \subseteq {f} /\ (run.step \notin {"fetch", "flush", "rename"} => staged = {})
    BY DEF StagingInv, RestoreInv, RunInv, OnFile
  <2>2. run'.step \notin {"fetch", "flush", "rename"} => staged' = {}
    BY <2>1
  <2>3. staged' \subseteq {f} /\ run'.step # "error"
    BY <2>1 DEF OnFile
  <2> QED
    BY <2>2, <2>3 DEF StagingInv
<1>7. staged' \subseteq Files
  BY DEF RestoreInv, TypeOK
<1> QED
  BY <1>1, <1>4, <1>5, <1>6, <1>7, RunStepFrame DEF RunInv

(* The file at hand.                                                       *)
LEMMA AtFile ==
  ASSUME RestoreInv, run.step \in OnFile
  PROVE  /\ run.file \in Files /\ run.file \in Restorable
         /\ Kind[run.file] \in {"small", "large", "chunked"}
         /\ Chunks[run.file] \in Seq(Blobs)
         /\ run \in Runs /\ run.temp \in Contents
<1>1. run.file \in Restorable /\ run \in Runs
  BY DEF RestoreInv, RunInv, FileInv, TypeOK
<1>2. run.temp \in Contents
  BY <1>1 DEF Runs
<1> QED
  BY <1>1, <1>2, RestoreAssumption DEF Restorable

(* The loop passes over a file, or turns to one.                           *)
LEMMA NextFileKeeps == ASSUME RestoreInv, NextFile PROVE RestoreInv'
<1>1. CASE Fail
  BY <1>1, FailKeeps DEF NextFile, At, Stopped
<1>2. /\ UNCHANGED <<setup, dir, tgt, disk, loose, acked>> /\ run.step = "next"
      /\ run \in Runs
  BY DEF NextFile, Frame, NoWrite, At, RestoreInv, TypeOK
<1>3. ASSUME NEW f \in run.todo, f \notin Restorable, UNCHANGED staged,
             run' = [run EXCEPT !.todo = @ \ {f}, !.skipped = @ \cup {f}]
      PROVE  RestoreInv'
  <2>1. f \in Files
    BY <1>2 DEF Runs
  <2>2. /\ run' \in Runs /\ run'.step = "next" /\ run'.todo = run.todo \ {f}
        /\ run'.restored = run.restored
    BY <1>2, <1>3, <2>1 DEF Runs
  <2>3. FileInv'
    BY <2>2 DEF FileInv, OnFile
  <2>4. LoopInv'
    BY <1>2, <1>3, <2>2 DEF LoopInv, RestoreInv, RunInv, Looping
  <2>5. StagingInv'
    BY <1>2, <1>3, <2>2 DEF StagingInv, RestoreInv, RunInv
  <2>6. staged' \subseteq Files
    BY <1>3 DEF RestoreInv, TypeOK
  <2> QED
    BY <1>2, <2>2, <2>3, <2>4, <2>5, <2>6, RunStepFrame DEF RunInv, NextFile
<1>4. ASSUME NEW f \in run.todo, f \in Restorable, UNCHANGED staged,
             run' = [run EXCEPT !.step = IF setup.overwrite THEN "open" ELSE "exists",
                                !.file = f, !.temp = <<>>, !.flushed = FALSE]
      PROVE  RestoreInv'
  <2>1. f \in Files /\ setup.overwrite \in BOOLEAN
    BY <1>4 DEF Restorable, RestoreInv, TypeOK, Setup
  <2>2. PICK s : s = IF setup.overwrite THEN "open" ELSE "exists"
    OBVIOUS
  <2>3. s \in RunSteps /\ s \in {"open", "exists"} /\ (s = "exists" => setup.overwrite = FALSE)
        /\ (s = "open" => setup.overwrite = TRUE)
    BY <2>1, <2>2 DEF RunSteps, Looping, OnFile
  <2>4. /\ run' \in Runs /\ run'.step = s /\ run'.file = f /\ run'.temp = <<>>
        /\ run'.todo = run.todo /\ run'.restored = run.restored
    BY <1>2, <1>4, <2>1, <2>2, <2>3, FileBegun
  <2>5. FileInv'
    BY <1>2, <1>4, <2>3, <2>4 DEF FileInv
  <2>6. LoopInv'
    BY <1>2, <2>3, <2>4 DEF LoopInv, RestoreInv, RunInv, Looping
  <2>7. StagingInv'
    BY <1>2, <1>4, <2>3, <2>4 DEF StagingInv, RestoreInv, RunInv
  <2>8. staged' \subseteq Files
    BY <1>4 DEF RestoreInv, TypeOK
  <2> QED
    BY <1>2, <2>4, <2>5, <2>6, <2>7, <2>8, RunStepFrame DEF RunInv, NextFile
<1> QED
  BY <1>1, <1>3, <1>4 DEF NextFile

(* All files are done.                                                     *)
LEMMA FinishKeeps == ASSUME RestoreInv, Finish PROVE RestoreInv'
<1>1. /\ UNCHANGED <<setup, dir, tgt, disk, loose, acked, staged>> /\ run.step = "next"
      /\ run \in Runs /\ To("ok") /\ staged' \subseteq Files
  BY DEF Finish, Frame, NoWrite, At, RestoreInv, TypeOK
<1>2. /\ run' \in Runs /\ run'.step = "ok" /\ run'.todo = run.todo
      /\ run'.restored = run.restored
  BY <1>1, Moved DEF RunSteps, Looping
<1>3. FileInv'
  BY <1>2 DEF FileInv, OnFile
<1>4. LoopInv'
  BY <1>1, <1>2 DEF LoopInv, RestoreInv, RunInv, Looping, Finish
<1>5. StagingInv'
  BY <1>1, <1>2 DEF StagingInv, RestoreInv, RunInv
<1> QED
  BY <1>1, <1>2, <1>3, <1>4, <1>5, RunStepFrame DEF RunInv, Finish

(* Without Overwrite a name that is taken is skipped, one that is free is  *)
(* gone on with.                                                           *)
LEMMA ExistsCheckKeeps == ASSUME RestoreInv, ExistsCheck PROVE RestoreInv'
<1>1. CASE Fail
  BY <1>1, FailKeeps DEF ExistsCheck, At, Stopped
<1>2. /\ UNCHANGED <<setup, dir, tgt, disk, loose, acked>> /\ run.step = "exists"
      /\ run \in Runs /\ run.temp = <<>> /\ setup.overwrite = FALSE
  BY DEF ExistsCheck, Frame, NoWrite, At, RestoreInv, TypeOK, RunInv, FileInv
<1>3. PICK f \in Files : f = run.file
  BY <1>2, AtFile DEF OnFile
<1>4. CASE tgt[run.file] # None /\ SkipFile /\ UNCHANGED staged
  <2>1. /\ run' \in Runs /\ run'.step = "next" /\ run'.todo = run.todo \ {f}
        /\ run'.restored = run.restored
    BY <1>2, <1>3, <1>4, FileSkipped
  <2>2. FileInv'
    BY <2>1 DEF FileInv, OnFile
  <2>3. LoopInv'
    BY <1>2, <1>3, <1>4, <2>1 DEF LoopInv, RestoreInv, RunInv, Looping, OnFile
  <2>4. StagingInv'
    BY <1>2, <1>4, <2>1 DEF StagingInv, RestoreInv, RunInv
  <2>5. staged' \subseteq Files
    BY <1>4 DEF RestoreInv, TypeOK
  <2> QED
    BY <1>2, <2>1, <2>2, <2>3, <2>4, <2>5, RunStepFrame DEF RunInv, ExistsCheck
<1>5. CASE tgt[run.file] = None /\ To("open") /\ UNCHANGED staged
  <2>1. /\ run' \in Runs /\ run'.step = "open" /\ run'.todo = run.todo /\ run'.file = f
        /\ run'.temp = <<>> /\ run'.restored = run.restored
    BY <1>2, <1>3, <1>5, Moved DEF RunSteps, Looping, OnFile
  <2> QED
    BY <1>2, <1>3, <1>5, <2>1, StaysOnFile DEF OnFile, ExistsCheck
<1> QED
  BY <1>1, <1>4, <1>5 DEF ExistsCheck

-----------------------------------------------------------------------------
(* The staging file is created, or the blob is downloaded first.           *)
LEMMA OpenKeeps == ASSUME RestoreInv, Open PROVE RestoreInv'
<1>1. CASE Fail
  BY <1>1, FailKeeps DEF Open, At, Stopped
<1>2. run.step = "open" /\ run \in Runs /\ run.temp = <<>>
  BY DEF Open, At, RestoreInv, TypeOK, RunInv, FileInv
<1>3. PICK f \in Files : f = run.file /\ Chunks[f] \in Seq(Blobs)
  BY <1>2, AtFile DEF OnFile
<1>4. CASE Kind[f] \in {"small", "large"} /\ To("buffer") /\ UNCHANGED staged
  <2>1. /\ run' \in Runs /\ run'.step = "buffer" /\ run'.todo = run.todo /\ run'.file = f
        /\ run'.restored = run.restored
    BY <1>2, <1>3, <1>4, Moved DEF RunSteps, Looping, OnFile
  <2> QED
    BY <1>2, <1>3, <1>4, <2>1, StaysOnFile DEF OnFile, Open
<1>5. CASE Kind[f] # "small" /\ To("fetch") /\ staged' = staged \cup {f}
  <2>1. /\ run' \in Runs /\ run'.step = "fetch" /\ run'.todo = run.todo /\ run'.file = f
        /\ run'.temp = <<>> /\ run'.restored = run.restored
    BY <1>2, <1>3, <1>5, Moved DEF RunSteps, Looping, OnFile
  <2>2. Part(<<>>, f)
    BY SMT, <1>3 DEF Part
  <2> QED
    BY <1>2, <1>3, <1>5, <2>1, <2>2, StaysOnFile DEF OnFile, Open
<1> QED
  BY <1>1, <1>3, <1>4, <1>5 DEF Open

(* A download that has the right hash is the whole of a file of one piece. *)
LEMMA BufferKeeps == ASSUME RestoreInv, Buffer PROVE RestoreInv'
<1>1. CASE Fail
  BY <1>1, FailKeeps DEF Buffer, At, Stopped
<1>2. run.step = "buffer" /\ run \in Runs
  BY DEF Buffer, At, RestoreInv, TypeOK
<1>3. PICK f \in Files : f = run.file /\ Chunks[f] \in Seq(Blobs)
  BY <1>2, AtFile DEF OnFile
<1>4. PICK b : b = Chunks[f][1]
  OBVIOUS
<1>5. CASE run' = [run EXCEPT !.step = "flush", !.temp = <<b>>] /\ staged' = staged \cup {f}
  <2>1. Kind[f] \in {"small", "large"}
    BY <1>2, <1>3 DEF RestoreInv, RunInv, FileInv
  <2>2. Len(Chunks[f]) = 1
    BY <2>1, RestoreAssumption
  <2>3. <<b>> = Chunks[f] /\ <<b>> \in Contents
    BY SMT, <1>3, <1>4, <2>2 DEF Contents
  <2>4. /\ run' \in Runs /\ run'.step = "flush" /\ run'.todo = run.todo /\ run'.file = f
        /\ run'.temp = Chunks[f] /\ run'.restored = run.restored
    BY <1>2, <1>3, <1>5, <2>3, TempWritten DEF RunSteps, Looping, OnFile
  <2> QED
    BY <1>2, <1>3, <1>5, <2>4, StaysOnFile DEF OnFile, Buffer
<1>6. CASE Fault("unlink") /\ To("error") /\ staged' = staged \cup {f}
  <2>1. UNCHANGED <<setup, dir, tgt, disk, loose, acked>> /\ Frame
    BY DEF Buffer, Frame, NoWrite
  <2>2. run' \in Runs /\ run'.step = "error"
    BY <1>2, <1>6, Moved DEF RunSteps
  <2>3. FileInv' /\ LoopInv'
    BY <2>2 DEF FileInv, LoopInv, OnFile, Looping
  <2>4. StagingInv' /\ staged' \subseteq Files
    BY <1>6, <2>1, <2>2 DEF StagingInv, Fault, RestoreInv, TypeOK
  <2> QED
    BY <2>1, <2>2, <2>3, <2>4, RunStepFrame DEF RunInv
<1> QED
  BY <1>1, <1>3, <1>4, <1>5, <1>6 DEF Buffer

(* A verified piece takes the place it has in the file.                    *)
LEMMA FetchChunkKeeps == ASSUME RestoreInv, FetchChunk PROVE RestoreInv'
<1>1. CASE Fail
  BY <1>1, FailKeeps DEF FetchChunk, At, Stopped
<1>2. run.step = "fetch" /\ run \in Runs
  BY DEF FetchChunk, At, RestoreInv, TypeOK
<1>3. PICK f \in Files, temp \in Contents :
         f = run.file /\ temp = run.temp /\ Chunks[f] \in Seq(Blobs)
  BY <1>2, AtFile DEF OnFile
<1>4. PICK b : b = Chunks[f][Len(temp) + 1]
  OBVIOUS
<1>5. Kind[f] = "chunked" /\ Len(temp) < Len(Chunks[f]) /\ Part(temp, f)
  BY <1>2, <1>3 DEF FetchChunk, RestoreInv, RunInv, FileInv, Part
<1>6. CASE Appended(b) /\ UNCHANGED staged
  <2>1. b \in Blobs \cup {Garbage}
    BY SMT, <1>3, <1>4, <1>5 DEF Contents
  <2>2. Append(temp, b) \in Contents
    BY SMT, <1>3, <2>1 DEF Contents
  <2>3. Part(Append(temp, b), f)
    BY SMT, <1>3, <1>4, <1>5 DEF Part, Contents
  <2>4. run' = [run EXCEPT !.step = "fetch", !.temp = Append(temp, b)]
    BY <1>2, <1>3, <1>6 DEF Appended, Runs
  <2>5. /\ run' \in Runs /\ run'.step = "fetch" /\ run'.todo = run.todo /\ run'.file = f
        /\ run'.temp = Append(temp, b) /\ run'.restored = run.restored
    BY <1>2, <1>3, <2>2, <2>4, TempWritten DEF RunSteps, Looping, OnFile
  <2> QED
    BY <1>2, <1>3, <1>5, <1>6, <2>3, <2>5, StaysOnFile DEF OnFile, FetchChunk
<1> QED
  BY <1>1, <1>3, <1>4, <1>6 DEF FetchChunk

(* A large blob is written before it is verified.                          *)
LEMMA FetchLargeKeeps == ASSUME RestoreInv, FetchLarge PROVE RestoreInv'
<1>1. CASE Fail
  BY <1>1, FailKeeps DEF FetchLarge, At, Stopped
<1>2. run.step = "fetch" /\ run \in Runs
  BY DEF FetchLarge, At, RestoreInv, TypeOK
<1>3. PICK f \in Files, temp \in Contents :
         f = run.file /\ temp = run.temp /\ Chunks[f] \in Seq(Blobs)
  BY <1>2, AtFile DEF OnFile
<1>4. Kind[f] = "large"
  BY <1>3 DEF FetchLarge
<1>5. PICK b : b = DecodedByFlag(Chunks[f][1])
  OBVIOUS
<1>6. CASE Appended(b) /\ UNCHANGED staged
  <2>1. b \in Blobs \cup {Garbage}
    BY <1>5 DEF DecodedByFlag, RestoreInv, TypeOK
  <2>2. Append(temp, b) \in Contents
    BY SMT, <1>3, <2>1 DEF Contents
  <2>3. run' = [run EXCEPT !.step = "fetch", !.temp = Append(temp, b)]
    BY <1>2, <1>3, <1>6 DEF Appended, Runs
  <2>4. /\ run' \in Runs /\ run'.step = "fetch" /\ run'.todo = run.todo /\ run'.file = f
        /\ run'.restored = run.restored
    BY <1>2, <1>3, <2>2, <2>3, TempWritten DEF RunSteps, Looping, OnFile
  <2> QED
    BY <1>2, <1>3, <1>4, <1>6, <2>4, StaysOnFile DEF OnFile, FetchLarge
<1> QED
  BY <1>1, <1>3, <1>5, <1>6 DEF FetchLarge

(* With as many pieces as the file has, a part of it is the whole.         *)
LEMMA FetchDoneKeeps == ASSUME RestoreInv, FetchDone PROVE RestoreInv'
<1>1. CASE Fail
  BY <1>1, FailKeeps DEF FetchDone, At, Stopped
<1>2. run.step = "fetch" /\ run \in Runs
  BY DEF FetchDone, At, RestoreInv, TypeOK
<1>3. PICK f \in Files, temp \in Contents :
         f = run.file /\ temp = run.temp /\ Chunks[f] \in Seq(Blobs)
  BY <1>2, AtFile DEF OnFile
<1>4. CASE (Kind[f] = "large" => run.temp = Chunks[f]) /\ To("flush") /\ UNCHANGED staged
  <2>1. Kind[f] \in {"small", "large", "chunked"}
    BY <1>2, <1>3, AtFile DEF OnFile
  <2>2. temp = Chunks[f]
    <3>1. CASE Kind[f] = "chunked"
      <4>1. Part(temp, f) /\ Len(temp) = Len(Chunks[f])
        BY <1>2, <1>3, <3>1 DEF FetchDone, RestoreInv, RunInv, FileInv, Part
      <4>2. temp \in Seq(Blobs \cup {Garbage}) /\ Chunks[f] \in Seq(Blobs \cup {Garbage})
        BY SMT, <1>3 DEF Contents
      <4> QED
        BY <4>1, <4>2, SeqEqual DEF Part
    <3>2. CASE Kind[f] = "large"
      BY <1>3, <1>4, <3>2
    <3>3. Kind[f] # "small"
      BY <1>2, <1>3 DEF RestoreInv, RunInv, FileInv
    <3> QED
      BY <2>1, <3>1, <3>2, <3>3
  <2>3. /\ run' \in Runs /\ run'.step = "flush" /\ run'.todo = run.todo /\ run'.file = f
        /\ run'.temp = temp /\ run'.restored = run.restored
    BY <1>2, <1>3, <1>4, Moved DEF RunSteps, Looping, OnFile
  <2> QED
    BY <1>2, <1>3, <1>4, <2>2, <2>3, StaysOnFile DEF OnFile, FetchDone
<1> QED
  BY <1>1, <1>3, <1>4 DEF FetchDone

(* The staging file is flushed before it gets the name.                    *)
LEMMA FlushKeeps == ASSUME RestoreInv, Flush PROVE RestoreInv'
<1>1. CASE Fail
  BY <1>1, FailKeeps DEF Flush, At, Stopped
<1>2. run.step = "flush" /\ run \in Runs
  BY DEF Flush, At, RestoreInv, TypeOK
<1>3. PICK f \in Files : f = run.file /\ run.temp = Chunks[f]
  BY <1>2, AtFile DEF OnFile, RestoreInv, RunInv, FileInv
<1>4. CASE run' = [run EXCEPT !.step = "rename", !.flushed = TRUE] /\ UNCHANGED staged
  <2>1. /\ run' \in Runs /\ run'.step = "rename" /\ run'.todo = run.todo /\ run'.file = f
        /\ run'.temp = Chunks[f] /\ run'.flushed = TRUE /\ run'.restored = run.restored
    BY <1>2, <1>3, <1>4 DEF Runs, RunSteps, Looping, OnFile
  <2> QED
    BY <1>2, <1>3, <1>4, <2>1, StaysOnFile DEF OnFile, Flush
<1> QED
  BY <1>1, <1>4 DEF Flush

-----------------------------------------------------------------------------
(* What is renamed over the target is the file, whole and flushed.         *)
LEMMA RenameKeeps == ASSUME RestoreInv, Rename PROVE RestoreInv'
<1>1. CASE Fail /\ UNCHANGED <<tgt, loose>>
  BY <1>1, FailKeeps DEF Rename, At, Stopped, NoWrite
<1>2. /\ run.step = "rename" /\ run \in Runs /\ run.flushed = TRUE
      /\ UNCHANGED <<setup, dir, disk, acked, blobs>>
  BY DEF Rename, At, RestoreInv, TypeOK, RunInv, FileInv, Frame
<1>3. PICK f \in Files : f = run.file /\ run.temp = Chunks[f] /\ Chunks[f] \in Contents
  BY <1>2, AtFile DEF OnFile, RestoreInv, RunInv, FileInv
<1>4. CASE /\ tgt' = [tgt EXCEPT ![f] = run.temp]
           /\ loose' = IF run.flushed THEN loose \ {f} ELSE loose \cup {f}
           /\ staged' = staged \ {f} /\ To("fsync")
  <2>1. /\ run' \in Runs /\ run'.step = "fsync" /\ run'.todo = run.todo /\ run'.file = f
        /\ run'.restored = run.restored
    BY <1>2, <1>3, <1>4, Moved DEF RunSteps, Looping, OnFile
  <2>2. /\ tgt'[f] = Chunks[f] /\ \A g \in Files \ {f} : tgt'[g] = tgt[g]
        /\ tgt' \in [Files -> Contents \cup {None, Foreign}]
    BY <1>3, <1>4 DEF RestoreInv, TypeOK
  <2>3. Chunks[f] # None /\ Chunks[f] # Foreign
    BY RestoreAssumption
  <2>4. TypeOK'
    BY <1>2, <1>4, <2>1, <2>2 DEF RestoreInv, TypeOK
  <2>5. WholeInv'
    BY <1>2, <1>4, <2>2 DEF RestoreInv, WholeInv
  <2>6. AckedInv' /\ ForeignInv'
    BY <1>2, <2>2, <2>3 DEF RestoreInv, TypeOK, AckedInv, ForeignInv
  <2>7. FileInv'
    <3>1. f \in Restorable
      BY <1>2, <1>3, AtFile DEF OnFile
    <3> QED
      BY <2>1, <2>2, <2>3, <3>1 DEF FileInv
  <2>8. LoopInv'
    BY <1>2, <2>1, <2>2, <2>3 DEF LoopInv, RestoreInv, RunInv, Looping, OnFile, Restorable
  <2>9. StagingInv'
    BY <1>2, <1>3, <1>4, <2>1 DEF StagingInv, RestoreInv, RunInv
  <2> QED
    BY <2>4, <2>5, <2>6, <2>7, <2>8, <2>9 DEF RestoreInv, RunInv
<1> QED
  BY <1>1, <1>3, <1>4 DEF Rename

(* A file counts as restored when the directory is synced.                 *)
LEMMA FsyncDirKeeps == ASSUME RestoreInv, FsyncDir PROVE RestoreInv'
<1>1. CASE Fail /\ UNCHANGED <<disk, acked>>
  BY <1>1, FailKeeps DEF FsyncDir, At, Stopped, NoWrite
<1>2. /\ run.step = "fsync" /\ run \in Runs /\ UNCHANGED <<setup, dir, tgt, loose, blobs>>
  BY DEF FsyncDir, At, RestoreInv, TypeOK, Frame
<1>3. PICK f \in Files : f = run.file /\ tgt[f] # None
  BY <1>2, AtFile DEF OnFile, RestoreInv, RunInv, FileInv
<1>4. CASE Restored /\ disk' = tgt /\ UNCHANGED staged
  <2>1. /\ run' \in Runs /\ run'.step = "next" /\ run'.todo = run.todo \ {f}
        /\ run'.restored = run.restored \cup {f}
    BY <1>2, <1>3, <1>4, FileDone
  <2>2. acked' = acked \cup {f}
    BY <1>3, <1>4 DEF Restored
  <2>3. TypeOK'
    BY <1>2, <1>4, <2>1, <2>2 DEF RestoreInv, TypeOK
  <2>4. WholeInv'
    BY <1>2, <1>4 DEF RestoreInv, WholeInv
  <2>5. AckedInv'
    BY <1>2, <1>3, <1>4, <2>2 DEF RestoreInv, AckedInv
  <2>6. ForeignInv'
    BY <1>2, <1>4 DEF RestoreInv, ForeignInv
  <2>7. FileInv'
    BY <2>1 DEF FileInv, OnFile
  <2>8. LoopInv'
    BY <1>2, <1>3, <2>1 DEF LoopInv, RestoreInv, RunInv, Looping, OnFile
  <2>9. StagingInv'
    BY <1>2, <1>4, <2>1 DEF StagingInv, RestoreInv, RunInv
  <2> QED
    BY <2>3, <2>4, <2>5, <2>6, <2>7, <2>8, <2>9 DEF RestoreInv, RunInv
<1> QED
  BY <1>1, <1>4 DEF FsyncDir

-----------------------------------------------------------------------------
(* Cancellation and damage leave the files and the run's work alone.       *)
LEMMA CancelKeeps == ASSUME RestoreInv, Cancel PROVE RestoreInv'
<1>1. /\ UNCHANGED <<setup, dir, tgt, disk, loose, staged, blobs, acked>>
      /\ run \in Runs /\ run' = [run EXCEPT !.cancelled = TRUE]
  BY DEF Cancel, files, RestoreInv, TypeOK
<1>2. /\ run' \in Runs /\ run'.step = run.step /\ run'.todo = run.todo /\ run'.file = run.file
      /\ run'.temp = run.temp /\ run'.flushed = run.flushed /\ run'.restored = run.restored
  BY <1>1 DEF Runs
<1>3. TypeOK' /\ WholeInv' /\ AckedInv' /\ ForeignInv'
  BY <1>1, <1>2 DEF RestoreInv, TypeOK, WholeInv, AckedInv, ForeignInv
<1>4. FileInv'
  BY SMT, <1>1, <1>2 DEF FileInv, RestoreInv, RunInv
<1>5. LoopInv' /\ StagingInv'
  BY <1>1, <1>2 DEF LoopInv, StagingInv, Fault, RestoreInv, RunInv
<1> QED
  BY <1>3, <1>4, <1>5 DEF RestoreInv, RunInv

(* ... as does everything that only loses blobs.                           *)
LEMMA UnchangedKeeps ==
  ASSUME RestoreInv, blobs' \subseteq blobs,
         UNCHANGED <<setup, dir, tgt, disk, loose, staged, run, acked>>
  PROVE  RestoreInv'
<1>1. TypeOK' /\ WholeInv' /\ AckedInv' /\ ForeignInv'
  BY DEF RestoreInv, TypeOK, WholeInv, AckedInv, ForeignInv
<1>2. FileInv'
  BY DEF FileInv, RestoreInv, RunInv
<1>3. LoopInv' /\ StagingInv'
  BY DEF LoopInv, StagingInv, Fault, RestoreInv, RunInv
<1> QED
  BY <1>1, <1>2, <1>3 DEF RestoreInv, RunInv

(* What another program writes is not the restore's.                       *)
LEMMA WriteForeignKeeps ==
  ASSUME RestoreInv, NEW g \in Restorable, WriteForeign(g) PROVE RestoreInv'
<1>1. /\ UNCHANGED <<setup, dir, disk, staged, blobs, run>> /\ "foreign" \in setup.faults
      /\ g \in Files /\ loose' = loose \ {g} /\ acked' = acked \ {g}
      /\ tgt' = [tgt EXCEPT ![g] = Foreign]
  BY DEF WriteForeign, Fault, Restorable
<1>2. /\ tgt'[g] = Foreign /\ \A f \in Files \ {g} : tgt'[f] = tgt[f]
      /\ tgt' \in [Files -> Contents \cup {None, Foreign}] /\ None # Foreign
  BY <1>1, RestoreAssumption DEF RestoreInv, TypeOK
<1>3. TypeOK'
  BY <1>1, <1>2 DEF RestoreInv, TypeOK
<1>4. WholeInv'
  BY <1>1, <1>2 DEF RestoreInv, WholeInv
<1>5. AckedInv' /\ ForeignInv'
  BY <1>1, <1>2 DEF RestoreInv, TypeOK, AckedInv, ForeignInv
<1>6. FileInv'
  <2>1. run.step = "fsync" => run.file \in Files
    BY AtFile DEF OnFile
  <2>2. run.step = "fsync" => tgt'[run.file] # None
    BY <1>2, <2>1 DEF FileInv, RestoreInv, RunInv
  <2> QED
    BY <1>1, <2>2 DEF FileInv, RestoreInv, RunInv
<1>7. LoopInv'
  BY <1>1, <1>2 DEF LoopInv, RestoreInv, RunInv, Restorable
<1>8. StagingInv'
  BY <1>1 DEF StagingInv, Fault, RestoreInv, RunInv
<1> QED
  BY <1>3, <1>4, <1>5, <1>6, <1>7, <1>8 DEF RestoreInv, RunInv

(* A killed run leaves the files, and perhaps a staging file.              *)
LEMMA KillKeeps == ASSUME RestoreInv, Kill PROVE RestoreInv'
<1>1. /\ UNCHANGED <<setup, dir, tgt, disk, loose, staged, blobs, acked>>
      /\ run' = NoRun /\ "kill" \in setup.faults
  BY DEF Kill, files, Fault
<1>2. <<>> \in Contents
  BY SMT DEF Contents
<1>3. run' \in Runs /\ run'.step = "idle"
  BY <1>1, <1>2 DEF NoRun, Runs, RunSteps
<1>4. TypeOK' /\ WholeInv' /\ AckedInv' /\ ForeignInv'
  BY <1>1, <1>3 DEF RestoreInv, TypeOK, WholeInv, AckedInv, ForeignInv
<1>5. RunInv'
  BY <1>1, <1>3, NotLooping DEF RestoreInv, RunInv
<1> QED
  BY <1>4, <1>5 DEF RestoreInv

(* What a power loss leaves under a name is what was seen or synced there; *)
(* a directory that was there stays.                                       *)
LEMMA PowerLossKeeps == ASSUME RestoreInv, PowerLoss PROVE RestoreInv'
<1>1. /\ UNCHANGED <<setup, blobs, acked>> /\ run' = NoRun /\ "power" \in setup.faults
      /\ disk' = tgt' /\ loose' = {} /\ loose = {}
  BY DEF PowerLoss, Fault, RestoreInv, WholeInv
<1>2. <<>> \in Contents
  BY SMT DEF Contents
<1>3. run' \in Runs /\ run'.step = "idle"
  BY <1>1, <1>2 DEF NoRun, Runs, RunSteps
<1>4. FileInv' /\ LoopInv' /\ StagingInv'
  BY <1>1, <1>3 DEF FileInv, LoopInv, StagingInv, OnFile, Looping
<1>5. CASE /\ dir' = "old" /\ UNCHANGED staged
           /\ \E back \in SUBSET Files :
                tgt' = [f \in Files |-> IF f \in back THEN disk[f]
                                        ELSE IF f \in loose THEN <<Garbage>> ELSE tgt[f]]
  <2>1. \A f \in Files : tgt'[f] \in {disk[f], tgt[f]}
    BY <1>1, <1>5
  <2>2. tgt' \in [Files -> Contents \cup {None, Foreign}]
    BY <1>1, <1>5 DEF RestoreInv, TypeOK
  <2>3. TypeOK'
    BY <1>1, <1>3, <1>5, <2>2 DEF RestoreInv, TypeOK
  <2>4. WholeInv'
    BY <1>1, <2>1 DEF RestoreInv, WholeInv
  <2>5. AckedInv'
    BY <1>1, <1>5, <2>1 DEF RestoreInv, AckedInv, TypeOK
  <2>6. ForeignInv'
    BY <1>1, <1>5 DEF ForeignInv
  <2> QED
    BY <1>4, <2>3, <2>4, <2>5, <2>6 DEF RestoreInv, RunInv
<1>6. CASE /\ dir # "old" /\ dir' = "none" /\ staged' = {}
           /\ tgt' = [f \in Files |-> None]
  <2>1. TypeOK'
    BY <1>1, <1>3, <1>6 DEF RestoreInv, TypeOK
  <2>2. WholeInv'
    BY <1>1, <1>6 DEF WholeInv
  <2>3. AckedInv'
    BY <1>1, <1>6 DEF RestoreInv, AckedInv
  <2>4. ForeignInv'
    BY <1>1, <1>6, RestoreAssumption DEF ForeignInv
  <2> QED
    BY <1>4, <2>1, <2>2, <2>3, <2>4 DEF RestoreInv, RunInv
<1> QED
  BY <1>5, <1>6 DEF PowerLoss

-----------------------------------------------------------------------------
(* The invariant: a restore starts in it, and every step keeps it.         *)
LEMMA RestoreInitial == ASSUME Init PROVE RestoreInv
<1>1. setup \in Setup
  BY RestoreAssumption DEF Init
<1>2. /\ run = NoRun /\ staged = {} /\ acked = {} /\ loose = {} /\ disk = tgt
      /\ blobs = Blobs /\ dir = IF setup.fresh THEN "none" ELSE "old"
  BY DEF Init
<1>3. <<>> \in Contents
  BY SMT DEF Contents
<1>4. run \in Runs /\ run.step = "idle"
  BY <1>2, <1>3 DEF NoRun, Runs, RunSteps
<1>5. PICK old \in SUBSET Restorable :
        /\ setup.fresh => old = {}
        /\ tgt = [f \in Files |-> IF f \in old THEN Foreign ELSE None]
  BY DEF Init
<1>6. setup.fresh \in BOOLEAN
  BY <1>1 DEF Setup
<1>7. TypeOK
  BY <1>1, <1>2, <1>4, <1>5 DEF TypeOK
<1>8. WholeInv
  BY <1>2, <1>5 DEF WholeInv
<1>9. AckedInv
  BY <1>2 DEF AckedInv
<1>10. ForeignInv
  BY <1>2, <1>5, <1>6, RestoreAssumption DEF ForeignInv
<1>11. RunInv
  BY <1>2, <1>4 DEF RunInv, FileInv, LoopInv, StagingInv, OnFile, Looping
<1> QED
  BY <1>7, <1>8, <1>9, <1>10, <1>11 DEF RestoreInv

(* Every step of Run ...                                                   *)
LEMMA RunStepKeeps == ASSUME RestoreInv, RunStep PROVE RestoreInv'
<1>1. CASE NextCancelled
  BY <1>1, FailKeeps DEF NextCancelled, At, Stopped
<1> QED
  BY <1>1, LoadManifestKeeps, MakeDirsKeeps, NextFileKeeps, FinishKeeps,
     ExistsCheckKeeps, OpenKeeps, BufferKeeps, FetchChunkKeeps, FetchLargeKeeps,
     FetchDoneKeeps, FlushKeeps, RenameKeeps, FsyncDirKeeps DEF RunStep

(* ... and of the world around it.                                         *)
LEMMA RestoreStep == ASSUME RestoreInv, [Next]_vars PROVE RestoreInv'
<1>1. CASE Begin
  BY <1>1, BeginKeeps
<1>2. CASE RunStep
  BY <1>2, RunStepKeeps
<1>3. CASE Cancel
  BY <1>3, CancelKeeps
<1>4. CASE Kill
  BY <1>4, KillKeeps
<1>5. CASE PowerLoss
  BY <1>5, PowerLossKeeps
<1>6. ASSUME NEW b \in Blobs, Damage(b) PROVE RestoreInv'
  <2>1. /\ blobs' \subseteq blobs
        /\ UNCHANGED <<setup, dir, tgt, disk, loose, staged, run, acked>>
    BY <1>6 DEF Damage, files
  <2> QED
    BY <2>1, UnchangedKeeps
<1>7. ASSUME NEW f \in Restorable, WriteForeign(f) PROVE RestoreInv'
  BY <1>7, WriteForeignKeeps
<1>8. CASE UNCHANGED vars
  <2>1. /\ blobs' \subseteq blobs
        /\ UNCHANGED <<setup, dir, tgt, disk, loose, staged, run, acked>>
    BY <1>8 DEF vars, files
  <2> QED
    BY <2>1, UnchangedKeeps
<1> QED
  BY <1>1, <1>2, <1>3, <1>4, <1>5, <1>6, <1>7, <1>8 DEF Next

(* What Run knows of its file, of the files behind it and of the disk.     *)
THEOREM RestoreInvariant == Spec => []RestoreInv
<1>1. Init => RestoreInv
  BY RestoreInitial
<1>2. RestoreInv /\ [Next]_vars => RestoreInv'
  BY RestoreStep
<1> QED
  BY <1>1, <1>2, PTL DEF Spec

(* No target name ever shows a part of a file: what writeAtomic renames is *)
(* the whole file, verified and flushed.                                   *)
THEOREM AlwaysWhole == Spec => []NeverPartial
<1>1. RestoreInv => NeverPartial
  BY DEF RestoreInv, WholeInv, NeverPartial, Whole
<1> QED
  BY <1>1, RestoreInvariant, PTL

(* Run returns a result only when every restorable file is in place.       *)
THEOREM OkMeansComplete == Spec => []ReturnedComplete
<1>1. ASSUME RestoreInv PROVE ReturnedComplete
  <2> SUFFICES ASSUME run.step = "ok", NEW f \in Restorable
               PROVE  tgt[f] # None /\ (setup.overwrite => f \in run.restored)
    BY DEF ReturnedComplete
  <2>1. run.todo = {}
    BY <1>1 DEF RestoreInv, RunInv, LoopInv
  <2>2. setup.overwrite \in BOOLEAN
    BY <1>1 DEF RestoreInv, TypeOK, Setup
  <2> QED
    BY <1>1, <2>1, <2>2 DEF RestoreInv, RunInv, LoopInv, Looping
<1> QED
  BY <1>1, RestoreInvariant, PTL

(* A file counted as restored survives a power loss, since the directory   *)
(* is synced before it counts.                                             *)
THEOREM RestoredDurable == Spec => []RestoredStays
<1>1. ASSUME RestoreInv PROVE RestoredStays
  <2>1. setup.fresh \in BOOLEAN /\ acked \subseteq Files
    BY <1>1 DEF RestoreInv, TypeOK, Setup
  <2> QED
    BY <1>1, <2>1 DEF RestoreInv, WholeInv, AckedInv, RestoredStays, Whole
<1> QED
  BY <1>1, RestoreInvariant, PTL

(* Every return passes through Cleanup of the one staging file there is.   *)
THEOREM NothingStaged == Spec => []CleanStaging
<1>1. RestoreInv => CleanStaging
  BY DEF RestoreInv, RunInv, StagingInv, CleanStaging, Stopped, Fault
<1> QED
  BY <1>1, RestoreInvariant, PTL

(* Without Overwrite no step of a restore, nor a power loss, replaces a    *)
(* file that was there: the name was found free before the download.       *)
LEMMA ForeignKept ==
  ASSUME RestoreInv, [Next]_vars, setup.overwrite = FALSE,
         "foreign" \notin setup.faults,
         NEW f \in Files, tgt[f] = Foreign
  PROVE  tgt'[f] = Foreign
<1>1. CASE tgt' = tgt
  BY <1>1
<1>2. CASE Rename
  <2>1. run.step = "rename" /\ tgt[run.file] # Foreign
    BY <1>2 DEF Rename, At, RestoreInv, RunInv, FileInv, OnFile
  <2>2. tgt' = [tgt EXCEPT ![run.file] = run.temp] \/ tgt' = tgt
    BY <1>2 DEF Rename
  <2> QED
    BY <2>1, <2>2 DEF RestoreInv, TypeOK
<1>3. CASE PowerLoss
  <2>1. dir = "old" /\ disk[f] = Foreign /\ loose = {}
    BY DEF RestoreInv, ForeignInv, WholeInv
  <2> QED
    BY <1>3, <2>1 DEF PowerLoss
<1>4. CASE RunStep /\ ~Rename
  <2>1. tgt' = tgt
    BY <1>4 DEF RunStep, LoadManifest, MakeDirs, NextFile, NextCancelled, Finish,
       ExistsCheck, Open, Buffer, FetchChunk, FetchLarge, FetchDone, Flush, FsyncDir, NoWrite
  <2> QED
    BY <1>1, <2>1
<1>5. CASE Begin \/ Cancel \/ Kill \/ (\E b \in Blobs : Damage(b)) \/ UNCHANGED vars
  <2>1. tgt' = tgt
    BY <1>5 DEF Begin, Cancel, Kill, Damage, files, vars
  <2> QED
    BY <1>1, <2>1
<1>6. ~ \E g \in Restorable : WriteForeign(g)
  BY DEF WriteForeign, Fault
<1> QED
  BY <1>2, <1>3, <1>4, <1>5, <1>6 DEF Next

(* The property itself, for Run with Overwrite off.                        *)
THEOREM ExistingKept == Spec => KeepsExisting
<1>1. ASSUME RestoreInv, [Next]_vars
      PROVE  [~setup.overwrite /\ ~Fault("foreign") =>
                \A f \in Files : tgt[f] = Foreign => tgt'[f] = Foreign]_vars
  <2>1. setup.overwrite \in BOOLEAN
    BY <1>1 DEF RestoreInv, TypeOK, Setup
  <2> QED
    BY <1>1, <2>1, ForeignKept DEF Fault
<1> QED
  BY <1>1, RestoreInvariant, PTL DEF Spec, KeepsExisting
=============================================================================
