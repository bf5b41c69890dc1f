-------------------------- MODULE BackupRunProofs --------------------------
(***************************************************************************)
(* A backup run (Pipeline) and the store its manifest is saved to          *)
(* (ManifestStore).                                                        *)
(***************************************************************************)
EXTENDS Pipeline, ManifestStore, FiniteSetTheorems, TLAPS

-----------------------------------------------------------------------------
(***************************************************************************)
(* The manifest that a run saves is whole, and complete when it says so,   *)
(* and the last progress report tells how the run ended, for any number of *)
(* files and workers, any capacity of the channel, any failures, and a     *)
(* context that is cancelled at any step.                                  *)
(***************************************************************************)

Outcomes == EntryKinds \cup ErrorKinds

WorkerStates == [step : {"recv", "exited"}] \cup [step : {"work"}, file : Files]
                  \cup [step : {"record"}, file : Files, outcome : Outcomes]

Before == {"start", "load", "scan"}
Pooling == {"feed", "select", "wait", "check"}
Phases == Before \cup Pooling \cup {"save", "complete", "failed"}

TypeOK ==
    /\ ctx \in {"live", "cancelled"} /\ phase \in Phases
    /\ scanned \subseteq Files /\ todo \subseteq Files
    /\ scanErrors \in BOOLEAN /\ closed \in BOOLEAN
    /\ ch \in Seq(Files)
    /\ worker \in [Workers -> WorkerStates]
    /\ manifest \in [Files -> SUBSET Outcomes]
    /\ stats \in [Counters -> Nat]

(* Where a scanned file is: in the channel, with a worker, or recorded.    *)
InChannel(f) == \E i \in 1 .. Len(ch) : ch[i] = f
Holds(k, f) == worker[k].step \in {"work", "record"} /\ worker[k].file = f
Recorded == {f \in Files : manifest[f] # {}}

(* A file is in one place at most, and is recorded once.                   *)
TodoInv ==
    \A f \in todo : /\ f \in scanned /\ ~InChannel(f) /\ manifest[f] = {}
                    /\ \A k \in Workers : ~Holds(k, f)

ChannelInv ==
    \A i \in 1 .. Len(ch) :
        /\ ch[i] \in scanned /\ manifest[ch[i]] = {}
        /\ \A k \in Workers : ~Holds(k, ch[i])
        /\ \A j \in 1 .. Len(ch) : ch[i] = ch[j] => i = j

WorkerInv ==
    \A k \in Workers, f \in Files : Holds(k, f) =>
        /\ f \in scanned /\ manifest[f] = {}
        /\ \A j \in Workers : Holds(j, f) => j = k

RecordedInv == \A f \in Recorded : f \in scanned /\ \E o \in Outcomes : manifest[f] = {o}

OnePlace == TodoInv /\ ChannelInv /\ WorkerInv /\ RecordedInv

(* While the context lives, no scanned file gets lost, no worker leaves a  *)
(* channel that may still hold or get a file, and no outcome is the trace  *)
(* of a cancellation.                                                      *)
LiveRun ==
    ctx = "live" =>
    /\ phase \in Pooling => \A f \in scanned :
          f \in todo \/ InChannel(f) \/ (\E k \in Workers : Holds(k, f)) \/ f \in Recorded
    /\ closed = TRUE => todo = {}
    /\ \A k \in Workers : worker[k].step = "exited" => closed = TRUE /\ ch = <<>>
    /\ \A k \in Workers : worker[k].step = "record" => worker[k].outcome # "interrupted"
    /\ \A f \in Files : "interrupted" \notin manifest[f]

(* What each phase of Run has behind it.                                   *)
PhaseInv ==
    /\ phase \in Before =>
          /\ scanned = {} /\ todo = {} /\ ch = <<>> /\ Recorded = {}
          /\ \A k \in Workers : worker[k] = Idle
    /\ phase \in Before \cup {"feed", "select"} => closed = FALSE
    /\ phase \in {"wait", "check"} => closed = TRUE
    /\ phase \in {"check", "save", "complete"} => PoolDone
    /\ phase \in Pooling \cup {"save", "complete"} => scanErrors = TRUE \/ scanned = Files
    /\ phase \in {"save", "complete"} => \A f \in scanned :
          f \in Recorded /\ "interrupted" \notin manifest[f]

Counted == SumStats(stats) = Cardinality(Recorded)

SavedInv ==
    phase = "complete" => /\ saved.files = Recorded /\ saved.stats = stats
                          /\ saved.complete = DeriveCompleteness

PipelineInv == TypeOK /\ OnePlace /\ LiveRun /\ PhaseInv /\ Counted /\ SavedInv

-----------------------------------------------------------------------------
(* Most leaves are first-order: Zenon unless a leaf names another prover.  *)
USE Zenon

(* A step that moves no file.                                              *)
LEMMA NothingMoves ==
  ASSUME OnePlace, Counted, UNCHANGED <<scanned, todo, ch, worker, manifest, stats>>
  PROVE  OnePlace' /\ Counted' /\ Recorded' = Recorded
<1>1. Recorded' = Recorded
  BY DEF Recorded
<1>2. TodoInv'
  BY DEF OnePlace, TodoInv, InChannel, Holds
<1>3. ChannelInv'
  BY DEF OnePlace, ChannelInv, Holds
<1>4. WorkerInv'
  BY DEF OnePlace, WorkerInv, Holds
<1>5. RecordedInv'
  BY <1>1 DEF OnePlace, RecordedInv
<1> QED
  BY <1>1, <1>2, <1>3, <1>4, <1>5 DEF Counted, OnePlace

(* The steps of Run that leave the files where they are: cancellation,     *)
(* preparation, the ends of the producer's loop, the join, the last check  *)
(* of the context.                                                         *)
LEMMA CancelKeeps == ASSUME PipelineInv, Cancel PROVE PipelineInv'
<1> USE DEF PipelineInv, Cancel
<1>1. TypeOK'
  BY DEF TypeOK
<1>2. OnePlace' /\ Counted' /\ Recorded' = Recorded
  BY NothingMoves
<1>3. LiveRun'
  BY DEF LiveRun
<1>4. PhaseInv'
  BY <1>2 DEF PhaseInv, PoolDone
<1>5. SavedInv'
  BY DEF SavedInv, Recorded, DeriveCompleteness
<1> QED
  BY <1>1, <1>2, <1>3, <1>4, <1>5

(* The preparation of a run comes before any file.                         *)
LEMMA PrepareKeeps == ASSUME PipelineInv, Prepare PROVE PipelineInv'
<1> USE DEF PipelineInv
<1>1. /\ phase \in Before /\ phase' \in Before \cup {"failed"}
      /\ UNCHANGED <<ctx, scanned, scanErrors, todo, ch, closed, worker, manifest, stats, saved>>
  BY DEF Prepare, Before
<1>2. TypeOK'
  BY <1>1 DEF TypeOK, Phases
<1>3. OnePlace' /\ Counted' /\ Recorded' = Recorded
  BY <1>1, NothingMoves
<1>4. LiveRun'
  BY <1>1 DEF LiveRun, Before, Pooling
<1>5. PhaseInv'
  BY <1>1, <1>3 DEF PhaseInv, PoolDone, Before, Pooling
<1>6. SavedInv'
  BY <1>1 DEF SavedInv, Before
<1> QED
  BY <1>2, <1>3, <1>4, <1>5, <1>6

(* The producer closes the channel only when nothing is left or all is off.*)
LEMMA FeedKeeps == ASSUME PipelineInv, Feed PROVE PipelineInv'
<1> USE DEF PipelineInv
<1>1. /\ phase = "feed"
      /\ \/ todo = {} \/ ctx = "cancelled"
         \/ phase' = "select"
      /\ \/ phase' = "wait" /\ closed' = TRUE /\ (todo = {} \/ ctx = "cancelled")
         \/ phase' = "select" /\ closed' = closed
      /\ UNCHANGED <<ctx, scanned, scanErrors, todo, ch, worker, manifest, stats, saved>>
  BY DEF Feed, Producer
<1>2. TypeOK'
  BY <1>1 DEF TypeOK, Phases, Pooling
<1>3. OnePlace' /\ Counted' /\ Recorded' = Recorded
  BY <1>1, NothingMoves
<1>4. LiveRun'
  BY <1>1, <1>3 DEF LiveRun, Pooling, InChannel, Holds, PhaseInv, TypeOK
<1>5. PhaseInv'
  BY <1>1, <1>3 DEF PhaseInv, PoolDone, Before, Pooling
<1>6. SavedInv'
  BY <1>1 DEF SavedInv
<1> QED
  BY <1>2, <1>3, <1>4, <1>5, <1>6

(* After wg.Wait every worker has left.                                    *)
LEMMA JoinKeeps == ASSUME PipelineInv, Join PROVE PipelineInv'
<1> USE DEF PipelineInv
<1>1. /\ phase = "wait" /\ phase' = "check" /\ PoolDone
      /\ UNCHANGED <<ctx, scanned, scanErrors, todo, ch, closed, worker, manifest, stats, saved>>
  BY DEF Join, Producer
<1>2. TypeOK'
  BY <1>1 DEF TypeOK, Phases, Pooling
<1>3. OnePlace' /\ Counted' /\ Recorded' = Recorded
  BY <1>1, NothingMoves
<1>4. LiveRun'
  BY <1>1, <1>3 DEF LiveRun, Pooling, InChannel, Holds
<1>5. PhaseInv'
  BY <1>1, <1>3 DEF PhaseInv, PoolDone, Before, Pooling
<1>6. SavedInv'
  BY <1>1 DEF SavedInv
<1> QED
  BY <1>2, <1>3, <1>4, <1>5, <1>6

(* A run whose context lives when the pool is done has recorded every      *)
(* scanned file.                                                           *)
LEMMA CheckContextKeeps == ASSUME PipelineInv, CheckContext PROVE PipelineInv'
<1> USE DEF PipelineInv
<1>1. /\ phase = "check" /\ phase' = IF ctx = "cancelled" THEN "failed" ELSE "save"
      /\ UNCHANGED <<ctx, scanned, scanErrors, todo, ch, closed, worker, manifest, stats, saved>>
  BY DEF CheckContext
<1>2. TypeOK'
  BY <1>1 DEF TypeOK, Phases
<1>3. OnePlace' /\ Counted' /\ Recorded' = Recorded
  BY <1>1, NothingMoves
<1>4. LiveRun'
  BY <1>1, <1>3 DEF LiveRun, Pooling, InChannel, Holds
<1>5. ASSUME ctx = "live", NEW f \in scanned
      PROVE  f \in Recorded /\ "interrupted" \notin manifest[f]
  <2>1. PoolDone /\ closed = TRUE
    BY <1>1 DEF PhaseInv
  <2>2. PICK k \in Workers : worker[k].step = "exited"
    BY <2>1, PipelineAssumption DEF PoolDone
  <2>3. ch = <<>> /\ todo = {}
    BY <1>5, <2>1, <2>2 DEF LiveRun
  <2>4. ~InChannel(f) /\ \A j \in Workers : ~Holds(j, f)
    BY SMT, <2>1, <2>3 DEF InChannel, Holds, PoolDone
  <2> QED
    BY <1>1, <1>5, <2>3, <2>4 DEF LiveRun, Pooling, TypeOK
<1>6. PhaseInv'
  BY <1>1, <1>3, <1>5 DEF PhaseInv, PoolDone, Before, Pooling, TypeOK
<1>7. SavedInv'
  BY <1>1 DEF SavedInv
<1> QED
  BY <1>2, <1>3, <1>4, <1>6, <1>7

(* The scan sets out the files.                                            *)
LEMMA ScanKeeps == ASSUME PipelineInv, Scan PROVE PipelineInv'
<1> USE DEF PipelineInv
<1>1. PICK missed \in SUBSET Files :
         /\ scanned' = Files \ missed /\ todo' = Files \ missed
         /\ scanErrors' = (missed # {})
         /\ phase' \in {"failed", "feed"}
  BY DEF Scan
<1>2. phase = "scan" /\ UNCHANGED <<ctx, ch, closed, worker, manifest, stats, saved>>
  BY DEF Scan
<1>3. /\ ch = <<>> /\ closed = FALSE /\ Recorded = {}
      /\ \A k \in Workers : worker[k].step = "recv"
      /\ \A f \in Files : manifest[f] = {}
  BY SMT, <1>2 DEF PhaseInv, Before, Idle, Recorded
<1>4. scanErrors' \in BOOLEAN /\ (scanErrors' = TRUE \/ scanned' = Files)
  BY <1>1
<1>5. TypeOK'
  BY <1>1, <1>2, <1>4 DEF TypeOK, Phases, Pooling
<1>6. OnePlace'
  BY SMT, <1>1, <1>2, <1>3 DEF OnePlace, TodoInv, ChannelInv, WorkerInv, RecordedInv,
                          InChannel, Holds, Recorded
<1>7. LiveRun'
  BY <1>1, <1>2, <1>3 DEF LiveRun
<1>8. PhaseInv'
  BY <1>1, <1>2, <1>3, <1>4 DEF PhaseInv, Before, Pooling
<1>9. Counted' /\ SavedInv'
  BY <1>1, <1>2 DEF Counted, SavedInv, Recorded
<1> QED
  BY <1>5, <1>6, <1>7, <1>8, <1>9

-----------------------------------------------------------------------------
(* The producer moves a file from the list to the channel.                 *)
LEMMA SendKeeps == ASSUME PipelineInv, Send PROVE PipelineInv'
<1> USE DEF PipelineInv
<1>1. PICK f \in todo : todo' = todo \ {f} /\ ch' = Append(ch, f)
  BY DEF Send
<1>2. /\ phase = "select" /\ phase' = "feed"
      /\ UNCHANGED <<ctx, scanned, scanErrors, closed, worker, manifest, stats, saved>>
  BY DEF Send, Producer
<1>3. /\ f \in Files /\ f \in scanned /\ f \notin Recorded /\ manifest[f] = {}
      /\ \A i \in 1 .. Len(ch) : ch[i] # f
      /\ \A k \in Workers : ~Holds(k, f)
  BY DEF OnePlace, TodoInv, TypeOK, InChannel, Recorded
<1>4. /\ ch \in Seq(Files) /\ Len(ch) \in Nat /\ ch' \in Seq(Files)
      /\ Len(ch') = Len(ch) + 1 /\ ch'[Len(ch) + 1] = f
      /\ \A i \in 1 .. Len(ch) : ch'[i] = ch[i]
  BY SMT, <1>1, <1>3 DEF TypeOK
<1>5. \A g : InChannel(g)' <=> InChannel(g) \/ g = f
  BY SMT, <1>4 DEF InChannel
<1>6. Recorded' = Recorded /\ \A k \in Workers, g \in Files : Holds(k, g)' <=> Holds(k, g)
  BY <1>2 DEF Recorded, Holds
<1>7. TypeOK'
  BY <1>1, <1>2, <1>4 DEF TypeOK, Phases, Pooling
<1>8. OnePlace'
  <2>1. TodoInv'
    BY <1>1, <1>2, <1>5, <1>6 DEF OnePlace, TodoInv, TypeOK
  <2>2. ChannelInv'
    <3> SUFFICES ASSUME NEW i \in 1 .. Len(ch')
                 PROVE  /\ ch'[i] \in scanned /\ manifest[ch'[i]] = {}
                        /\ \A k \in Workers : ~Holds(k, ch'[i])
                        /\ \A j \in 1 .. Len(ch') : ch'[i] = ch'[j] => i = j
      BY <1>2 DEF ChannelInv, Holds
    <3>1. CASE i = Len(ch) + 1
      BY SMT, <1>3, <1>4, <3>1
    <3>2. CASE i \in 1 .. Len(ch)
      <4>1. /\ ch[i] \in scanned /\ manifest[ch[i]] = {}
            /\ \A k \in Workers : ~Holds(k, ch[i])
            /\ \A j \in 1 .. Len(ch) : ch[i] = ch[j] => i = j
        BY <3>2 DEF OnePlace, ChannelInv
      <4>2. ch'[i] = ch[i] /\ ch[i] # f
        BY <1>3, <1>4, <3>2
      <4>3. \A j \in 1 .. Len(ch') : j \in 1 .. Len(ch) \/ j = Len(ch) + 1
        BY SMT, <1>4
      <4>4. \A j \in 1 .. Len(ch') : ch'[i] = ch'[j] => i = j
        BY <1>4, <4>1, <4>2, <4>3
      <4> QED
        BY <4>1, <4>2, <4>4
    <3> QED
      BY SMT, <1>4, <3>1, <3>2
  <2>3. WorkerInv'
    BY <1>2, <1>6 DEF OnePlace, WorkerInv
  <2>4. RecordedInv'
    BY <1>2, <1>6 DEF OnePlace, RecordedInv
  <2> QED
    BY <2>1, <2>2, <2>3, <2>4 DEF OnePlace
<1>9. closed = FALSE
  BY <1>2 DEF PhaseInv
<1>10. LiveRun'
  <2> SUFFICES ASSUME ctx = "live" PROVE LiveRun'
    BY <1>2 DEF LiveRun
  <2>1. \A g \in scanned : \/ g \in todo' \/ InChannel(g)'
                           \/ (\E k \in Workers : Holds(k, g)') \/ g \in Recorded'
    BY <1>1, <1>2, <1>5, <1>6 DEF LiveRun, Pooling, TypeOK
  <2> QED
    BY <1>2, <1>9, <2>1 DEF LiveRun
<1>11. PhaseInv'
  BY <1>2, <1>6 DEF PhaseInv, Before, Pooling
<1>12. Counted' /\ SavedInv'
  BY <1>2, <1>6 DEF Counted, SavedInv
<1> QED
  BY <1>7, <1>8, <1>10, <1>11, <1>12

(* A cancelled producer passes a file over; the context lives no more.     *)
LEMMA SendCancelledKeeps == ASSUME PipelineInv, SendCancelled PROVE PipelineInv'
<1> USE DEF PipelineInv
<1>1. /\ todo' \subseteq todo /\ phase = "select" /\ phase' = "feed" /\ ctx = "cancelled"
      /\ UNCHANGED <<ctx, scanned, scanErrors, ch, closed, worker, manifest, stats, saved>>
  BY DEF SendCancelled, Producer
<1>2. Recorded' = Recorded /\ \A k \in Workers, g \in Files : Holds(k, g)' <=> Holds(k, g)
  BY <1>1 DEF Recorded, Holds
<1>3. TypeOK'
  BY <1>1 DEF TypeOK, Phases, Pooling
<1>4. TodoInv' /\ ChannelInv'
  BY <1>1 DEF OnePlace, TodoInv, ChannelInv, InChannel, Holds
<1>5. WorkerInv' /\ RecordedInv'
  BY <1>1, <1>2 DEF OnePlace, WorkerInv, RecordedInv
<1>6. LiveRun'
  BY <1>1 DEF LiveRun
<1>7. PhaseInv'
  BY <1>1, <1>2 DEF PhaseInv, Before, Pooling
<1>8. Counted' /\ SavedInv'
  BY <1>1, <1>2 DEF Counted, SavedInv
<1> QED
  BY <1>3, <1>4, <1>5, <1>6, <1>7, <1>8 DEF OnePlace

(* A worker takes the first file of the channel, or drops it when the      *)
(* context is done.                                                        *)
LEMMA ReceiveKeeps ==
  ASSUME PipelineInv, NEW k \in Workers, Receive(k) PROVE PipelineInv'
<1> USE DEF PipelineInv
<1>0. PICK f : f = Head(ch)
  OBVIOUS
<1> DEFINE w == IF ctx = "cancelled" THEN [step |-> "exited"] ELSE [step |-> "work", file |-> f]
<1>1. /\ worker[k].step = "recv" /\ ch # <<>> /\ ch' = Tail(ch)
      /\ worker' = [worker EXCEPT ![k] = w] /\ phase \in {"feed", "select", "wait"}
      /\ UNCHANGED <<ctx, phase, scanned, scanErrors, todo, closed, manifest, stats, saved>>
  BY <1>0 DEF Receive, WorkerStep, Running
<1>2. /\ ch \in Seq(Files) /\ Len(ch) \in Nat \ {0} /\ f = ch[1] /\ f \in Files
      /\ ch' \in Seq(Files) /\ Len(ch') = Len(ch) - 1
      /\ \A i \in 1 .. Len(ch') : ch'[i] = ch[i + 1] /\ i + 1 \in 1 .. Len(ch)
  <2>1. ch \in Seq(Files)
    BY DEF TypeOK
  <2> HIDE DEF PipelineInv, w
  <2>2. Len(ch) \in Nat \ {0} /\ f = ch[1]
    BY SMT, <1>0, <1>1, <2>1
  <2>3. f \in Files
    BY SMT, <2>1, <2>2
  <2>4. ch' \in Seq(Files) /\ Len(ch') = Len(ch) - 1
    BY SMT, <1>1, <2>1
  <2>5. \A i \in 1 .. Len(ch') : ch'[i] = ch[i + 1] /\ i + 1 \in 1 .. Len(ch)
    BY SMT, <1>1, <2>1, <2>2, <2>4
  <2> QED
    BY <2>1, <2>2, <2>3, <2>4, <2>5
<1>3. /\ f \in scanned /\ manifest[f] = {} /\ f \notin todo
      /\ \A i \in 2 .. Len(ch) : ch[i] # f
      /\ \A j \in Workers : ~Holds(j, f)
  <2>1. 1 \in 1 .. Len(ch) /\ 2 .. Len(ch) \subseteq 1 .. Len(ch) /\ 1 \notin 2 .. Len(ch)
    BY SMT, <1>2
  <2>2. /\ f \in scanned /\ manifest[f] = {} /\ \A j \in Workers : ~Holds(j, f)
        /\ \A i \in 1 .. Len(ch) : f = ch[i] => 1 = i
    BY <1>2, <2>1 DEF OnePlace, ChannelInv
  <2>3. f \notin todo
    BY <1>2, <2>1 DEF OnePlace, TodoInv, InChannel
  <2> QED
    BY <2>1, <2>2, <2>3
<1>4. /\ w \in WorkerStates /\ w.step \in {"work", "exited"}
      /\ ctx = "live" => w.step = "work" /\ w.file = f
      /\ w.step = "work" => w.file = f
  BY <1>2 DEF TypeOK, WorkerStates
<1> HIDE DEF w
<1>5. worker'[k] = w /\ \A j \in Workers \ {k} : worker'[j] = worker[j]
  BY <1>1 DEF TypeOK
<1>6. /\ \A g \in Files : Holds(k, g)' => g = f
      /\ \A j \in Workers \ {k}, g \in Files : Holds(j, g)' <=> Holds(j, g)
      /\ \A g \in Files : ~Holds(k, g)
  BY <1>1, <1>4, <1>5 DEF Holds
<1>7. Recorded' = Recorded
  BY <1>1 DEF Recorded
<1>8. \A g : InChannel(g)' <=> InChannel(g) /\ g # f
  <2>1. ASSUME NEW g, InChannel(g), g # f PROVE InChannel(g)'
    <3>1. PICK i \in 1 .. Len(ch) : ch[i] = g
      BY <2>1 DEF InChannel
    <3>2. i - 1 \in 1 .. Len(ch') /\ ch'[i - 1] = g
      BY SMT, <1>2, <2>1, <3>1
    <3> QED
      BY <3>2 DEF InChannel
  <2>2. ASSUME NEW g, InChannel(g)' PROVE InChannel(g) /\ g # f
    <3>1. PICK i \in 1 .. Len(ch') : ch'[i] = g
      BY <2>2 DEF InChannel
    <3>2. i + 1 \in 2 .. Len(ch) /\ i + 1 \in 1 .. Len(ch) /\ ch[i + 1] = g
      BY SMT, <1>2, <3>1
    <3> QED
      BY <1>3, <3>2 DEF InChannel
  <2> QED
    BY <2>1, <2>2
<1>9. TypeOK'
  BY <1>1, <1>2, <1>4 DEF TypeOK
<1>10. OnePlace'
  <2>1. TodoInv'
    BY <1>1, <1>3, <1>6, <1>8 DEF OnePlace, TodoInv, TypeOK
  <2>2. ChannelInv'
    <3>1. ASSUME NEW i \in 1 .. Len(ch'), NEW g \in Files, ch'[i] = g
          PROVE  /\ g \in scanned /\ manifest[g] = {}
                 /\ \A j \in Workers : ~Holds(j, g)'
                 /\ \A j \in 1 .. Len(ch') : g = ch'[j] => i = j
      <4>1. PICK n \in 1 .. Len(ch) : n = i + 1 /\ g = ch[n]
        BY <1>2, <3>1
      <4>2. g # f
        <5>1. n \in 2 .. Len(ch)
          BY SMT, <1>2, <4>1
        <5> QED
          BY <1>3, <4>1, <5>1
      <4>3. /\ g \in scanned /\ manifest[g] = {}
            /\ \A j \in Workers : ~Holds(j, g)
            /\ \A j \in 1 .. Len(ch) : g = ch[j] => n = j
        BY <4>1 DEF OnePlace, ChannelInv
      <4>4. \A j \in Workers : ~Holds(j, g)'
        BY <1>6, <4>2, <4>3
      <4>5. \A j \in 1 .. Len(ch') : g = ch'[j] => i = j
        BY SMT, <1>2, <4>1, <4>3
      <4> QED
        BY <4>3, <4>4, <4>5
    <3>2. \A i \in 1 .. Len(ch') : ch'[i] \in Files
      BY SMT, <1>2
    <3> HIDE DEF PipelineInv
    <3> QED
      BY <1>1, <3>1, <3>2 DEF ChannelInv, Holds
  <2>3. WorkerInv'
    <3> SUFFICES ASSUME NEW j \in Workers, NEW g \in Files, Holds(j, g)'
                 PROVE  /\ g \in scanned /\ manifest[g] = {}
                        /\ \A i \in Workers : Holds(i, g)' => i = j
      BY <1>1 DEF WorkerInv
    <3>1. CASE j = k
      BY <1>3, <1>6, <3>1
    <3>2. CASE j # k
      <4>1. Holds(j, g)
        BY <1>6, <3>2
      <4>2. g \in scanned /\ manifest[g] = {} /\ \A i \in Workers : Holds(i, g) => i = j
        BY <4>1 DEF OnePlace, WorkerInv
      <4> QED
        BY <1>3, <1>6, <4>1, <4>2
    <3> QED
      BY <3>1, <3>2
  <2>4. RecordedInv'
    BY <1>1, <1>7 DEF OnePlace, RecordedInv
  <2> QED
    BY <2>1, <2>2, <2>3, <2>4 DEF OnePlace
<1>11. LiveRun'
  <2> SUFFICES ASSUME ctx = "live" PROVE LiveRun'
    BY <1>1 DEF LiveRun
  <2>1. Holds(k, f)'
    BY <1>4, <1>5 DEF Holds
  <2>2. \A g \in scanned : \/ g \in todo' \/ InChannel(g)'
                           \/ (\E j \in Workers : Holds(j, g)') \/ g \in Recorded'
    <3> SUFFICES ASSUME NEW g \in scanned, g \notin todo, g \notin Recorded, g # f
                 PROVE  InChannel(g)' \/ \E j \in Workers : Holds(j, g)'
      BY <1>1, <1>7, <2>1
    <3>1. InChannel(g) \/ \E j \in Workers : Holds(j, g)
      BY <1>1 DEF LiveRun, Pooling
    <3> QED
      BY <1>6, <1>8, <3>1 DEF TypeOK
  <2>3. \A j \in Workers : worker'[j].step # "exited" /\ worker[j].step # "exited"
    BY <1>1, <1>4, <1>5 DEF LiveRun
  <2> QED
    BY <1>1, <1>4, <1>5, <2>2, <2>3 DEF LiveRun
<1>12. PhaseInv'
  BY <1>1, <1>7 DEF PhaseInv, Before, Pooling
<1>13. Counted' /\ SavedInv'
  BY <1>1, <1>7 DEF Counted, SavedInv
<1> QED
  BY <1>9, <1>10, <1>11, <1>12, <1>13

(* A worker that held no file leaves, or its file gets an outcome: no file *)
(* moves.                                                                  *)
LEMMA WorkerStaysWithFile ==
  ASSUME PipelineInv, NEW k \in Workers, NEW w \in WorkerStates,
         worker' = [worker EXCEPT ![k] = w],
         UNCHANGED <<ctx, phase, scanned, scanErrors, todo, ch, closed, manifest, stats, saved>>,
         \A f \in Files : (w.step \in {"work", "record"} /\ w.file = f) <=> Holds(k, f),
         phase \in Before => w = Idle,
         phase \in {"check", "save", "complete"} => w.step = "exited",
         ctx = "live" /\ w.step = "exited" => closed = TRUE /\ ch = <<>>,
         ctx = "live" /\ w.step = "record" => w.outcome # "interrupted"
  PROVE  PipelineInv'
<1> USE DEF PipelineInv
<1>1. worker'[k] = w /\ \A j \in Workers \ {k} : worker'[j] = worker[j]
  BY DEF TypeOK
<1>2. \A j \in Workers, f \in Files : Holds(j, f)' <=> Holds(j, f)
  BY <1>1 DEF Holds
<1>3. Recorded' = Recorded /\ \A f : InChannel(f)' <=> InChannel(f)
  BY DEF Recorded, InChannel
<1>4. TypeOK'
  BY DEF TypeOK
<1>5. TodoInv'
  BY <1>2, <1>3 DEF OnePlace, TodoInv, TypeOK
<1>6. ChannelInv'
  <2>1. ASSUME NEW i \in 1 .. Len(ch)
        PROVE  /\ ch[i] \in scanned /\ manifest[ch[i]] = {}
               /\ \A j \in 1 .. Len(ch) : ch[i] = ch[j] => i = j
    BY DEF OnePlace, ChannelInv
  <2>2. ASSUME NEW i \in 1 .. Len(ch), NEW g \in Files, g = ch[i], NEW j \in Workers
        PROVE  ~Holds(j, g)'
    BY <1>2, <2>2 DEF OnePlace, ChannelInv
  <2>3. \A i \in 1 .. Len(ch) : ch[i] \in Files
    BY SMT DEF TypeOK
  <2> HIDE DEF PipelineInv
  <2>4. ASSUME NEW i \in 1 .. Len(ch), NEW j \in Workers
        PROVE  ~(worker'[j].step \in {"work", "record"} /\ worker'[j].file = ch[i])
    <3>1. PICK g \in Files : g = ch[i]
      BY <2>3
    <3>2. ~Holds(j, g)'
      BY <2>2, <3>1
    <3> QED
      BY <3>1, <3>2 DEF Holds
  <2>5. ch' = ch /\ scanned' = scanned /\ manifest' = manifest
    OBVIOUS
  <2>6. \A i \in 1 .. Len(ch'), j \in Workers : ~Holds(j, ch[i])'
    BY <2>4, <2>5 DEF Holds
  <2> QED
    BY <2>1, <2>5, <2>6 DEF ChannelInv
<1>7. WorkerInv'
  BY <1>2 DEF OnePlace, WorkerInv
<1>8. RecordedInv'
  BY <1>3 DEF OnePlace, RecordedInv
<1>9. LiveRun'
  <2> SUFFICES ASSUME ctx = "live" PROVE LiveRun'
    BY DEF LiveRun
  <2>1. phase \in Pooling => \A f \in scanned :
           \/ f \in todo \/ InChannel(f)' \/ (\E j \in Workers : Holds(j, f)') \/ f \in Recorded'
    BY <1>2, <1>3 DEF LiveRun, TypeOK
  <2>2. \A j \in Workers : /\ worker'[j].step = "exited" => closed = TRUE /\ ch = <<>>
                           /\ worker'[j].step = "record" => worker'[j].outcome # "interrupted"
    BY <1>1 DEF LiveRun
  <2> QED
    BY <2>1, <2>2 DEF LiveRun
<1>10. PhaseInv'
  <2>1. phase \in {"check", "save", "complete"} => PoolDone'
    BY <1>1 DEF PhaseInv, PoolDone
  <2>2. phase \in Before => \A j \in Workers : worker'[j] = Idle
    BY <1>1 DEF PhaseInv
  <2> QED
    BY <1>3, <2>1, <2>2 DEF PhaseInv
<1>11. Counted' /\ SavedInv'
  BY <1>3 DEF Counted, SavedInv, DeriveCompleteness
<1> QED
  BY <1>4, <1>5, <1>6, <1>7, <1>8, <1>9, <1>10, <1>11 DEF OnePlace

(* A worker leaves a channel that is closed and drained.                   *)
LEMMA LeaveKeeps == ASSUME PipelineInv, NEW k \in Workers, Leave(k) PROVE PipelineInv'
<1> DEFINE w == [step |-> "exited"]
<1>1. /\ worker[k].step = "recv" /\ closed /\ ch = <<>>
      /\ worker' = [worker EXCEPT ![k] = w] /\ phase \in {"feed", "select", "wait"}
      /\ UNCHANGED <<ctx, phase, scanned, scanErrors, todo, ch, closed, manifest, stats, saved>>
  BY DEF Leave, WorkerStep, Running
<1>2. closed = TRUE
  BY <1>1 DEF PipelineInv, TypeOK
<1>3. w \in WorkerStates /\ w.step = "exited"
  BY DEF WorkerStates
<1> HIDE DEF w
<1>4. \A f \in Files : ~Holds(k, f)
  BY <1>1 DEF Holds
<1> QED
  BY <1>1, <1>2, <1>3, <1>4, WorkerStaysWithFile DEF Before

(* processFile returns an outcome for the file the worker holds.           *)
LEMMA ProcessKeeps == ASSUME PipelineInv, NEW k \in Workers, Process(k) PROVE PipelineInv'
<1>1. PICK o \in Possible(worker[k].file) :
         worker' = [worker EXCEPT ![k] =
                      [step |-> "record", file |-> worker[k].file, outcome |-> o]]
  BY DEF Process, WorkerStep
<1> DEFINE w == [step |-> "record", file |-> worker[k].file, outcome |-> o]
<1>2. /\ worker[k].step = "work"
      /\ UNCHANGED <<ctx, phase, scanned, scanErrors, todo, ch, closed, manifest, stats, saved>>
  BY DEF Process, WorkerStep
<1>3. worker[k].file \in Files
  BY <1>2 DEF PipelineInv, TypeOK, WorkerStates
<1>4. o \in Outcomes /\ (ctx = "live" => o # "interrupted")
  BY PipelineAssumption DEF Possible, Outcomes, EntryKinds, ErrorKinds, FaultKinds
<1>5. /\ w \in WorkerStates /\ w.step = "record" /\ w.file = worker[k].file
      /\ w.outcome = o
  BY <1>3, <1>4 DEF WorkerStates
<1> HIDE DEF w
<1>6. \A f \in Files : (w.step \in {"work", "record"} /\ w.file = f) <=> Holds(k, f)
  BY <1>2, <1>5 DEF Holds
<1>7. phase \notin Before /\ phase \notin {"check", "save", "complete"}
  <2>1. worker[k] # Idle /\ worker[k].step # "exited"
    BY SMT, <1>2 DEF Idle
  <2> QED
    BY <2>1 DEF PipelineInv, PhaseInv, PoolDone
<1>8. worker' = [worker EXCEPT ![k] = w]
  BY <1>1 DEF w
<1> QED
  BY <1>2, <1>4, <1>5, <1>6, <1>7, <1>8, WorkerStaysWithFile

(* The outcome of a file that has none yet is recorded and counted.        *)
LEMMA RecordKeeps == ASSUME PipelineInv, NEW k \in Workers, Record(k) PROVE PipelineInv'
<1> USE DEF PipelineInv
<1>1. PICK f, o : f = worker[k].file /\ o = worker[k].outcome
  OBVIOUS
<1>2. /\ worker[k].step = "record"
      /\ manifest' = [manifest EXCEPT ![f] = @ \cup {o}]
      /\ stats' = [stats EXCEPT ![Counter(o)] = @ + 1]
      /\ worker' = [worker EXCEPT ![k] = Idle]
      /\ UNCHANGED <<ctx, phase, scanned, scanErrors, todo, ch, closed, saved>>
  BY <1>1 DEF Record, WorkerStep
<1>3. f \in Files /\ o \in Outcomes /\ Holds(k, f)
  BY <1>1, <1>2 DEF TypeOK, WorkerStates, Holds
<1>4. /\ f \in scanned /\ manifest[f] = {} /\ f \notin Recorded /\ f \notin todo
      /\ \A j \in Workers \ {k} : ~Holds(j, f)
      /\ ~InChannel(f)
  <2>1. f \in scanned /\ manifest[f] = {} /\ \A j \in Workers : Holds(j, f) => j = k
    BY <1>3 DEF OnePlace, WorkerInv
  <2>2. f \notin todo
    BY <1>3 DEF OnePlace, TodoInv
  <2>3. ~InChannel(f)
    BY <1>3 DEF OnePlace, ChannelInv, InChannel
  <2> QED
    BY <2>1, <2>2, <2>3 DEF Recorded
<1>5. manifest'[f] = {o} /\ \A g \in Files \ {f} : manifest'[g] = manifest[g]
  BY <1>2, <1>3, <1>4 DEF TypeOK
<1>6. Recorded' = Recorded \cup {f}
  BY <1>3, <1>5 DEF Recorded
<1>7. /\ worker'[k] = Idle /\ \A j \in Workers \ {k} : worker'[j] = worker[j]
      /\ Idle \in WorkerStates /\ Idle.step = "recv"
  BY <1>2 DEF TypeOK, Idle, WorkerStates
<1>8. /\ \A g \in Files : ~Holds(k, g)'
      /\ \A j \in Workers \ {k}, g \in Files : Holds(j, g)' <=> Holds(j, g)
  BY <1>7 DEF Holds
<1>9. Counter(o) \in Counters
  BY <1>3 DEF Counter, Counters, Outcomes
<1>10. TypeOK'
  <2>1. manifest' \in [Files -> SUBSET Outcomes]
    BY <1>2, <1>3 DEF TypeOK
  <2>2. stats' \in [Counters -> Nat]
    BY SMT, <1>2, <1>9 DEF TypeOK
  <2>3. worker' \in [Workers -> WorkerStates]
    BY <1>2, <1>7 DEF TypeOK
  <2> QED
    BY <1>2, <2>1, <2>2, <2>3 DEF TypeOK
<1>11. TodoInv'
  <2>1. \A g \in todo : g \in Files /\ g # f
    BY <1>4 DEF TypeOK
  <2>2. \A g \in todo : g \in scanned /\ ~InChannel(g)' /\ manifest'[g] = {}
    BY <1>2, <1>5, <2>1 DEF OnePlace, TodoInv, InChannel
  <2>3. \A g \in todo, j \in Workers : ~Holds(j, g)'
    BY <1>8, <2>1 DEF OnePlace, TodoInv
  <2> QED
    BY <1>2, <2>2, <2>3 DEF TodoInv
<1>12. ChannelInv'
  <2>1. ASSUME NEW i \in 1 .. Len(ch)
        PROVE  /\ ch[i] \in Files /\ ch[i] # f /\ ch[i] \in scanned /\ manifest[ch[i]] = {}
               /\ \A j \in 1 .. Len(ch) : ch[i] = ch[j] => i = j
    BY <1>4 DEF TypeOK, InChannel, OnePlace, ChannelInv
  <2>2. ASSUME NEW i \in 1 .. Len(ch), NEW g \in Files, g = ch[i], NEW j \in Workers
        PROVE  ~Holds(j, g)'
    <3>1. ~Holds(j, g)
      BY <2>2 DEF OnePlace, ChannelInv
    <3> QED
      BY <1>8, <3>1
  <2> HIDE DEF PipelineInv
  <2>3. \A i \in 1 .. Len(ch) : manifest'[ch[i]] = {}
    BY <1>5, <2>1
  <2>4. ASSUME NEW i \in 1 .. Len(ch), NEW j \in Workers
        PROVE  ~(worker'[j].step \in {"work", "record"} /\ worker'[j].file = ch[i])
    <3>1. PICK g \in Files : g = ch[i]
      BY <2>1
    <3>2. ~Holds(j, g)'
      BY <2>2, <3>1
    <3> QED
      BY <3>1, <3>2 DEF Holds
  <2>5. ch' = ch /\ scanned' = scanned
    BY <1>2
  <2> QED
    BY <2>1, <2>3, <2>4, <2>5 DEF ChannelInv, Holds
<1>13. WorkerInv'
  <2> SUFFICES ASSUME NEW j \in Workers, NEW g \in Files, Holds(j, g)'
               PROVE  /\ g \in scanned' /\ manifest'[g] = {}
                      /\ \A i \in Workers : Holds(i, g)' => i = j
    BY DEF WorkerInv
  <2>1. j # k /\ Holds(j, g)
    BY <1>8
  <2>2. g # f
    BY <1>4, <2>1
  <2>3. g \in scanned /\ manifest[g] = {} /\ \A i \in Workers : Holds(i, g) => i = j
    BY <2>1 DEF OnePlace, WorkerInv
  <2> QED
    BY <1>2, <1>5, <1>8, <2>2, <2>3
<1>14. RecordedInv'
  <2>1. ASSUME NEW g \in Recorded
        PROVE  g \in scanned /\ \E x \in Outcomes : manifest'[g] = {x}
    <3>1. g \in Files /\ g # f
      BY <1>4 DEF Recorded
    <3> QED
      BY <1>5, <3>1 DEF OnePlace, RecordedInv
  <2> QED
    BY <1>2, <1>3, <1>4, <1>5, <1>6, <2>1 DEF RecordedInv
<1>15. LiveRun'
  <2> SUFFICES ASSUME ctx = "live" PROVE LiveRun'
    BY <1>2 DEF LiveRun
  <2>1. ASSUME phase \in Pooling, NEW g \in scanned
        PROVE  \/ g \in todo \/ InChannel(g)' \/ (\E j \in Workers : Holds(j, g)') \/ g \in Recorded'
    <3>1. g \in Files /\ (InChannel(g)' <=> InChannel(g))
      BY <1>2 DEF TypeOK, InChannel
    <3>2. CASE g = f
      BY <1>6, <3>2
    <3>3. CASE g # f
      <4>1. \A j \in Workers : Holds(j, g) => Holds(j, g)'
        BY <1>1, <1>8, <3>1, <3>3 DEF Holds
      <4>2. g \in Recorded => g \in Recorded'
        BY <1>6
      <4> QED
        BY <2>1, <3>1, <4>1, <4>2 DEF LiveRun
    <3> QED
      BY <3>2, <3>3
  <2>2. \A j \in Workers : /\ worker'[j].step = "exited" => closed = TRUE /\ ch = <<>>
                           /\ worker'[j].step = "record" => worker'[j].outcome # "interrupted"
    BY <1>7 DEF LiveRun
  <2>3. \A g \in Files : "interrupted" \notin manifest'[g]
    BY <1>1, <1>2, <1>5 DEF LiveRun
  <2> QED
    BY <1>2, <2>1, <2>2, <2>3 DEF LiveRun
<1>16. phase \notin Before /\ phase \notin {"check", "save", "complete"}
  <2>1. worker[k] # Idle /\ worker[k].step # "exited"
    BY <1>2, <1>7
  <2> QED
    BY <2>1 DEF PhaseInv, PoolDone
<1>17. PhaseInv'
  BY <1>2, <1>16 DEF PhaseInv, Pooling
<1>18. Counted'
  <2>1. IsFiniteSet(Recorded)
    BY PipelineAssumption, FS_Subset DEF Recorded
  <2>2. Cardinality(Recorded') = Cardinality(Recorded) + 1
    BY <1>4, <1>6, <2>1, FS_AddElement
  <2>3. SumStats(stats') = SumStats(stats) + 1
    <3>1. /\ stats'[Counter(o)] = stats[Counter(o)] + 1
          /\ \A c \in Counters \ {Counter(o)} : stats'[c] = stats[c]
          /\ \A c \in Counters : stats[c] \in Nat
      BY <1>2, <1>9 DEF TypeOK
    <3>2. Counter(o) \in {"new", "changed", "unchanged", "locked", "failed"}
          /\ Counters = {"new", "changed", "unchanged", "locked", "failed"}
      BY <1>9 DEF Counters, EntryKinds
    <3> HIDE DEF PipelineInv
    <3> QED
      BY SMT, <3>1, <3>2 DEF SumStats
  <2> QED
    BY <2>2, <2>3 DEF Counted
<1>19. SavedInv'
  BY <1>2, <1>16 DEF SavedInv
<1> QED
  BY <1>10, <1>11, <1>12, <1>13, <1>14, <1>15, <1>17, <1>18, <1>19 DEF OnePlace

-----------------------------------------------------------------------------
(* What is saved is what was recorded.                                     *)
LEMMA SaveKeeps == ASSUME PipelineInv, Save PROVE PipelineInv'
<1> USE DEF PipelineInv
<1>1. /\ phase = "save" /\ phase' \in {"complete", "failed"}
      /\ UNCHANGED <<ctx, scanned, scanErrors, todo, ch, closed, worker, manifest, stats>>
  BY DEF Save
<1>2. TypeOK'
  BY <1>1 DEF TypeOK, Phases
<1>3. OnePlace' /\ Counted' /\ Recorded' = Recorded
  BY <1>1, NothingMoves
<1>4. LiveRun'
  BY <1>1 DEF LiveRun, Pooling
<1>5. PhaseInv'
  BY <1>1, <1>3 DEF PhaseInv, PoolDone, Before, Pooling
<1>6. SavedInv'
  <2>1. CASE phase' = "complete"
    <3>1. saved' = [files |-> Recorded, complete |-> DeriveCompleteness, stats |-> stats]
      BY <2>1 DEF Save, Recorded
    <3>2. DeriveCompleteness' = DeriveCompleteness
      BY <1>1 DEF DeriveCompleteness
    <3> QED
      BY <1>1, <1>3, <3>1, <3>2 DEF SavedInv
  <2>2. CASE phase' # "complete"
    BY <2>2 DEF SavedInv
  <2> QED
    BY <2>1, <2>2
<1> QED
  BY <1>2, <1>3, <1>4, <1>5, <1>6

(* Reports, and a run that has returned, leave the run alone.              *)
LEMMA RunUnchanged == ASSUME PipelineInv, UNCHANGED run PROVE PipelineInv'
<1> USE DEF PipelineInv, run
<1>1. TypeOK'
  BY DEF TypeOK
<1>2. OnePlace' /\ Counted' /\ Recorded' = Recorded
  BY NothingMoves
<1>3. LiveRun'
  BY <1>2 DEF LiveRun, InChannel, Holds
<1>4. PhaseInv'
  BY <1>2 DEF PhaseInv, PoolDone
<1>5. SavedInv'
  BY <1>2 DEF SavedInv, DeriveCompleteness
<1> QED
  BY <1>1, <1>2, <1>3, <1>4, <1>5

(* A run that has not started satisfies the invariant.                     *)
LEMMA PipelineInitial == Init => PipelineInv
<1> SUFFICES ASSUME Init PROVE PipelineInv
  OBVIOUS
<1> USE DEF Init
<1>1. TypeOK
  <2>1. Idle \in WorkerStates
    BY DEF Idle, WorkerStates
  <2>2. worker \in [Workers -> WorkerStates]
    BY <2>1
  <2>3. /\ manifest \in [Files -> SUBSET Outcomes] /\ stats \in [Counters -> Nat]
        /\ ch \in Seq(Files) /\ phase \in Phases
    BY SMT DEF Phases, Before
  <2> QED
    BY <2>2, <2>3 DEF TypeOK
<1>2. Recorded = {}
  BY DEF Recorded
<1>3. OnePlace
  <2>1. TodoInv /\ ChannelInv
    BY SMT DEF TodoInv, ChannelInv
  <2>2. WorkerInv
    BY DEF WorkerInv, Holds, Idle
  <2> QED
    BY <1>2, <2>1, <2>2 DEF OnePlace, RecordedInv
<1>4. LiveRun
  BY DEF LiveRun, Pooling, Idle
<1>5. PhaseInv
  BY <1>2 DEF PhaseInv, Before, Pooling
<1>6. Counted
  BY SMT, <1>2, FS_EmptySet DEF Counted, SumStats, Counters, EntryKinds
<1>7. SavedInv
  BY DEF SavedInv
<1> QED
  BY <1>1, <1>3, <1>4, <1>5, <1>6, <1>7 DEF PipelineInv

(* Every step of Run, of a worker and of a report keeps it.                *)
LEMMA PipelineStep == PipelineInv /\ [Next]_vars => PipelineInv'
<1> SUFFICES ASSUME PipelineInv, [Next]_vars PROVE PipelineInv'
  OBVIOUS
<1>1. CASE Cancel
  BY <1>1, CancelKeeps
<1>2. CASE RunStep
  BY <1>2, PrepareKeeps, ScanKeeps, FeedKeeps, SendKeeps, SendCancelledKeeps,
     JoinKeeps, CheckContextKeeps, SaveKeeps DEF RunStep
<1>3. ASSUME NEW k \in Workers, Work(k) PROVE PipelineInv'
  BY <1>3, ReceiveKeeps, LeaveKeeps, ProcessKeeps, RecordKeeps DEF Work
<1>4. ASSUME NEW t \in Threads, Report(t) PROVE PipelineInv'
  BY <1>4, RunUnchanged DEF Report
<1>5. CASE Stay
  BY <1>5, RunUnchanged DEF Stay, vars
<1>6. CASE UNCHANGED vars
  BY <1>6, RunUnchanged DEF vars
<1> QED
  BY <1>1, <1>2, <1>3, <1>4, <1>5, <1>6 DEF Next

(* The inductive invariant of Run and its pool.                            *)
THEOREM PipelineInvariant == Spec => []PipelineInv
<1> QED
  BY PipelineInitial, PipelineStep, PTL DEF Spec

(* A manifest is saved only when every scanned file has exactly one entry, *)
(* none of them the trace of a cancellation, and the counters of           *)
(* uploadStats add up to the number of files (Run, simple/pipeline.go).    *)
THEOREM SavedWhole == Spec => []SavedIsWhole
<1>1. PipelineInv => SavedIsWhole
  <2> SUFFICES ASSUME PipelineInv, phase = "complete" PROVE SavedIsWhole
    BY DEF SavedIsWhole
  <2> USE DEF PipelineInv
  <2>1. \A f \in scanned : f \in Recorded /\ "interrupted" \notin manifest[f]
    BY DEF PhaseInv
  <2>2. Recorded = scanned
    BY <2>1 DEF OnePlace, RecordedInv
  <2>3. ASSUME NEW f \in scanned PROVE Cardinality(manifest[f]) = 1
    <3>1. PICK o \in Outcomes : manifest[f] = {o}
      BY <2>1 DEF OnePlace, RecordedInv
    <3> HIDE DEF PipelineInv
    <3> QED
      BY <3>1, FS_Singleton
  <2>4. saved.files = scanned /\ SumStats(saved.stats) = Cardinality(scanned)
    BY <2>2 DEF SavedInv, Counted
  <2> QED
    BY <2>1, <2>3, <2>4 DEF SavedIsWhole
<1> QED
  BY <1>1, PipelineInvariant, PTL

(* A manifest whose Completeness is complete holds every file of the       *)
(* source, and none of its entries is an error (DeriveCompleteness).       *)
THEOREM CompleteMeansComplete == Spec => []CompleteIsComplete
<1>1. PipelineInv => CompleteIsComplete
  <2> SUFFICES ASSUME PipelineInv, phase = "complete", saved.complete, NEW f \in Files
               PROVE  f \in saved.files /\ manifest[f] \subseteq EntryKinds
    BY DEF CompleteIsComplete
  <2> USE DEF PipelineInv
  <2>1. ~scanErrors /\ \A g \in Files : manifest[g] \cap ErrorKinds = {}
    BY DEF SavedInv, DeriveCompleteness
  <2>2. scanned = Files
    BY <2>1 DEF PhaseInv
  <2>3. f \in saved.files
    BY <2>2 DEF PhaseInv, SavedInv
  <2>4. manifest[f] \subseteq Outcomes
    BY DEF TypeOK
  <2> QED
    BY <2>1, <2>3, <2>4 DEF Outcomes
<1> QED
  BY <1>1, PipelineInvariant, PTL

-----------------------------------------------------------------------------
(* The reports: what is tracked agrees with the counters of the run, and a *)
(* goroutine in a report is one that waits for its next file or, for Run,  *)
(* one that has not reached the join.                                      *)
Progress == [phase : {"scanning", "uploading", "complete"}, total : Nat,
             processed : Nat, new : Nat, changed : Nat, unchanged : Nat]
ThreadStates == [step : {"ready", "callback"}]
                  \cup [step : {"deliver"}, snapshot : Progress]

TrackerType ==
    /\ progress \in Progress /\ delivered \in Progress
    /\ thread \in [Threads -> ThreadStates]

Tracked ==
    /\ progress.processed = SumStats(stats)
    /\ progress.new = stats["new"] + stats["changed"]
    /\ progress.unchanged = stats["unchanged"] + stats["locked"] + stats["failed"]
    /\ phase \in Pooling \cup {"save", "complete"} => progress.total = Cardinality(scanned)

ReportersWait ==
    /\ \A k \in Workers : worker[k].step # "recv" => Ready(k)
    /\ phase \in {"check", "save"} => Ready(Main)

(* Nothing announces the end before the manifest is saved; after that the  *)
(* only snapshot under way is the last one.                                *)
NotAnnounced ==
    /\ progress.phase # "complete" /\ delivered.phase # "complete"
    /\ \A t \in Threads : thread[t].step = "deliver" => thread[t].snapshot.phase # "complete"

Announced ==
    /\ progress.phase = "complete"
    /\ IF thread[Main].step = "deliver" THEN thread[Main].snapshot = progress
                                        ELSE delivered = progress

ReportInv ==
    /\ TrackerType /\ Tracked /\ ReportersWait
    /\ phase # "complete" => NotAnnounced
    /\ phase = "complete" => Announced

LEMMA ReportInitial == Init => ReportInv
<1> SUFFICES ASSUME Init PROVE ReportInv
  OBVIOUS
<1> USE DEF Init, InitTracker
<1>1. NewProgress \in Progress /\ NewProgress.phase = "scanning"
  BY SMT DEF NewProgress, Progress
<1>2. [step |-> "ready"] \in ThreadStates
  BY DEF ThreadStates
<1>3. TrackerType
  BY <1>1, <1>2 DEF TrackerType
<1>4. Tracked
  BY SMT DEF Tracked, NewProgress, SumStats, Counters, EntryKinds, Pooling
<1>5. ReportersWait
  BY DEF ReportersWait, Idle
<1>6. NotAnnounced
  BY <1>1 DEF NotAnnounced
<1> QED
  BY <1>3, <1>4, <1>5, <1>6 DEF ReportInv

(* A step that reports nothing.                                            *)
LEMMA Unreported ==
  ASSUME ReportInv, phase # "complete", phase' # "complete",
         UNCHANGED <<tracker, stats>>,
         phase' \in Pooling \cup {"save"} =>
            scanned' = scanned /\ phase \in Pooling \cup {"save"},
         phase' \in {"check", "save"} => Ready(Main),
         \A k \in Workers : worker'[k].step # "recv" => Ready(k)
  PROVE  ReportInv'
<1> USE DEF ReportInv, tracker
<1>1. TrackerType'
  BY DEF TrackerType
<1>2. Tracked'
  BY DEF Tracked
<1>3. ReportersWait'
  BY DEF ReportersWait, Ready
<1>4. NotAnnounced'
  BY DEF NotAnnounced
<1> QED
  BY <1>1, <1>2, <1>3, <1>4

(* update, by Run or by a worker, before the manifest is saved.            *)
LEMMA UpdateReports ==
  ASSUME ReportInv, NEW t \in Threads, NEW p \in Progress, Update(t, p)
  PROVE  /\ TrackerType' /\ progress' = p
         /\ thread'[t].step = "deliver" /\ thread'[t].snapshot = p
         /\ \A u \in Threads \ {t} : thread'[u] = thread[u]
         /\ phase # "complete" /\ p.phase # "complete" => NotAnnounced'
<1> USE DEF ReportInv, Update
<1>1. [step |-> "deliver", snapshot |-> p] \in ThreadStates
  BY DEF ThreadStates
<1>2. TrackerType'
  BY <1>1 DEF TrackerType
<1>3. /\ thread'[t].step = "deliver" /\ thread'[t].snapshot = p
      /\ \A u \in Threads \ {t} : thread'[u] = thread[u]
  BY DEF TrackerType
<1>4. phase # "complete" /\ p.phase # "complete" => NotAnnounced'
  BY <1>3 DEF NotAnnounced
<1> QED
  BY <1>2, <1>3, <1>4

LEMMA MainReports == Main \in Threads /\ Main \notin Workers /\ Workers \subseteq Threads
  BY PipelineAssumption DEF PipelineAssumption

(* The reports of the preparation and of the scan.                         *)
LEMMA PrepareReports == ASSUME PipelineInv, ReportInv, Prepare PROVE ReportInv'
<1>1. /\ phase \in Before /\ phase' \in Before \cup {"failed"}
      /\ UNCHANGED <<scanned, worker, stats>>
  BY DEF Prepare, Before
<1>2. \A k \in Workers : worker[k].step = "recv"
  BY SMT, <1>1 DEF PipelineInv, PhaseInv, Idle
<1>3. CASE UNCHANGED tracker
  BY <1>1, <1>2, <1>3, Unreported DEF Before, Pooling
<1>4. ASSUME NEW ph \in {"scanning", "uploading"}, SetPhase(Main, ph) PROVE ReportInv'
  <2> DEFINE p == [progress EXCEPT !.phase = ph]
  <2>1. /\ p \in Progress /\ p.phase = ph
        /\ p.processed = progress.processed /\ p.new = progress.new
        /\ p.unchanged = progress.unchanged
    BY SMT DEF ReportInv, TrackerType, Progress
  <2>2. Update(Main, p)
    BY <1>4 DEF SetPhase
  <2> HIDE DEF p
  <2>3. TrackerType' /\ progress' = p /\ NotAnnounced'
    BY <1>1, <2>1, <2>2, MainReports, UpdateReports DEF Before
  <2>4. Tracked'
    BY <1>1, <2>1, <2>3 DEF ReportInv, Tracked, Before, Pooling
  <2>5. ReportersWait'
    BY <1>1, <1>2 DEF ReportersWait, Before
  <2> QED
    BY <1>1, <2>3, <2>4, <2>5 DEF ReportInv, Before
<1> QED
  BY <1>3, <1>4 DEF Prepare

LEMMA ScanReports == ASSUME PipelineInv, ReportInv, Scan PROVE ReportInv'
<1>1. PICK missed \in SUBSET Files :
        /\ scanned' = Files \ missed
        /\ \/ phase' = "failed" /\ UNCHANGED tracker
           \/ phase' = "feed" /\ SetTotal(Main, Cardinality(Files \ missed))
  BY DEF Scan
<1>2. phase = "scan" /\ UNCHANGED <<worker, stats>>
  BY DEF Scan
<1>3. \A k \in Workers : worker[k].step = "recv"
  BY SMT, <1>2 DEF PipelineInv, PhaseInv, Idle, Before
<1>4. CASE phase' = "failed" /\ UNCHANGED tracker
  BY <1>2, <1>3, <1>4, Unreported DEF Pooling
<1>5. CASE phase' = "feed" /\ SetTotal(Main, Cardinality(Files \ missed))
  <2> DEFINE n == Cardinality(Files \ missed)
             p == [progress EXCEPT !.total = n]
  <2>1. n \in Nat
    BY PipelineAssumption, FS_Subset, FS_CardinalityType DEF PipelineAssumption
  <2>2. Update(Main, p)
    BY <1>5 DEF SetTotal
  <2>3. n = Cardinality(scanned')
    BY <1>1
  <2> HIDE DEF n
  <2>4. /\ p \in Progress /\ p.phase = progress.phase /\ p.total = n
        /\ p.processed = progress.processed /\ p.new = progress.new
        /\ p.unchanged = progress.unchanged
    BY SMT, <2>1 DEF ReportInv, TrackerType, Progress
  <2> HIDE DEF p
  <2>5. TrackerType' /\ progress' = p /\ NotAnnounced'
    BY <1>2, <2>2, <2>4, MainReports, UpdateReports DEF ReportInv, NotAnnounced
  <2>6. Tracked'
    BY <1>2, <2>3, <2>4, <2>5 DEF ReportInv, Tracked
  <2>7. ReportersWait'
    BY <1>2, <1>3, <1>5 DEF ReportersWait
  <2> QED
    BY <1>5, <2>5, <2>6, <2>7 DEF ReportInv
<1> QED
  BY <1>1, <1>4, <1>5

(* The steps of Run that report nothing.                                   *)
LEMMA RunReports ==
  ASSUME ReportInv, Cancel \/ Feed \/ Send \/ SendCancelled \/ Join \/ CheckContext
  PROVE  ReportInv'
<1>1. UNCHANGED <<tracker, stats, scanned, worker>>
  BY DEF Cancel, Feed, Send, SendCancelled, Join, CheckContext, Producer
<1>2. CASE Cancel
  BY <1>1, <1>2, Unreported DEF Cancel, ReportInv, ReportersWait
<1>3. CASE Feed \/ Send \/ SendCancelled \/ Join
  <2>1. /\ phase \in {"feed", "select", "wait"} /\ phase' \in {"feed", "select", "wait", "check"}
        /\ Ready(Main)
    BY <1>3 DEF Feed, Send, SendCancelled, Join, Producer
  <2> QED
    BY <1>1, <2>1, Unreported DEF ReportInv, ReportersWait, Pooling
<1>4. CASE CheckContext
  <2>1. phase = "check" /\ phase' \in {"failed", "save"}
    BY <1>4 DEF CheckContext
  <2> QED
    BY <1>1, <2>1, Unreported DEF ReportInv, ReportersWait, Pooling
<1> QED
  BY <1>2, <1>3, <1>4

(* The steps of a worker that report nothing.                              *)
LEMMA WorkerReports ==
  ASSUME PipelineInv, ReportInv, NEW k \in Workers, Receive(k) \/ Leave(k) \/ Process(k)
  PROVE  ReportInv'
<1>1. UNCHANGED <<tracker, stats, scanned, phase>>
  BY DEF Receive, Leave, Process, WorkerStep
<1>2. PICK st : worker' = [worker EXCEPT ![k] = st]
  BY DEF Receive, Leave, Process, WorkerStep
<1>3. Ready(k)
  BY DEF Receive, Leave, Running, Process, ReportInv, ReportersWait
<1>4. \A j \in Workers : worker'[j].step # "recv" => Ready(j)
  BY <1>2, <1>3 DEF PipelineInv, TypeOK, ReportInv, ReportersWait
<1>5. phase # "complete"
  BY DEF Receive, Leave, Running, Process, PipelineInv, PhaseInv, PoolDone
<1> QED
  BY <1>1, <1>4, <1>5, Unreported DEF ReportInv, ReportersWait

(* A worker counts its file and reports it.                                *)
LEMMA RecordReports ==
  ASSUME PipelineInv, ReportInv, NEW k \in Workers, Record(k) PROVE ReportInv'
<1> DEFINE o == worker[k].outcome
           isNew == o \in {"new", "changed"}
           p == [progress EXCEPT
                   !.processed = @ + 1,
                   !.new = IF isNew THEN @ + 1 ELSE @,
                   !.changed = IF ~isNew /\ o = "changed" THEN @ + 1 ELSE @,
                   !.unchanged = IF ~isNew /\ ~(o = "changed") THEN @ + 1 ELSE @]
<1>1. /\ worker[k].step = "record" /\ Update(k, p)
      /\ stats' = [stats EXCEPT ![Counter(o)] = @ + 1]
      /\ worker' = [worker EXCEPT ![k] = Idle]
      /\ UNCHANGED <<phase, scanned>>
  BY DEF Record, WorkerStep, FileProcessed
<1>2. o \in Outcomes
  BY <1>1 DEF PipelineInv, TypeOK, WorkerStates
<1>3. phase # "complete" /\ phase \notin {"check", "save"}
  BY <1>1 DEF PipelineInv, PhaseInv, PoolDone
<1>4. stats \in [Counters -> Nat]
  BY DEF PipelineInv, TypeOK
<1>5. progress \in Progress
  BY DEF ReportInv, TrackerType
<1> HIDE DEF o
<1>6. /\ p \in Progress /\ p.phase = progress.phase /\ p.total = progress.total
      /\ p.processed = progress.processed + 1
      /\ p.new = IF isNew THEN progress.new + 1 ELSE progress.new
      /\ p.unchanged = IF isNew THEN progress.unchanged ELSE progress.unchanged + 1
  <2> DEFINE n == IF isNew THEN progress.new + 1 ELSE progress.new
             c == IF ~isNew /\ o = "changed" THEN progress.changed + 1 ELSE progress.changed
             u == IF ~isNew /\ ~(o = "changed") THEN progress.unchanged + 1 ELSE progress.unchanged
             q == progress.processed + 1
  <2>1. n \in Nat /\ c \in Nat /\ u \in Nat /\ q \in Nat
    BY SMT, <1>5 DEF Progress
  <2>2. p = [progress EXCEPT !.processed = q, !.new = n, !.changed = c, !.unchanged = u]
    BY SMT, <1>5 DEF Progress
  <2>3. u = IF isNew THEN progress.unchanged ELSE progress.unchanged + 1
    OBVIOUS
  <2> HIDE DEF n, c, u, q, p, isNew
  <2>4. /\ p \in Progress /\ p.phase = progress.phase /\ p.total = progress.total
        /\ p.processed = q /\ p.new = n /\ p.unchanged = u
    BY <1>5, <2>1, <2>2 DEF Progress
  <2> QED
    BY <2>3, <2>4 DEF n, q
<1> HIDE DEF p
<1>7. TrackerType' /\ progress' = p /\ NotAnnounced'
  BY <1>1, <1>3, <1>6, MainReports, UpdateReports DEF ReportInv, NotAnnounced
<1>8. Tracked'
  <2>1. /\ SumStats(stats') = SumStats(stats) + 1
        /\ stats'["new"] + stats'["changed"] =
             IF isNew THEN stats["new"] + stats["changed"] + 1 ELSE stats["new"] + stats["changed"]
        /\ stats'["unchanged"] + stats'["locked"] + stats'["failed"] =
             IF isNew THEN stats["unchanged"] + stats["locked"] + stats["failed"]
                      ELSE stats["unchanged"] + stats["locked"] + stats["failed"] + 1
    BY SMT, <1>1, <1>2, <1>4 DEF SumStats, Counter, Counters, EntryKinds, ErrorKinds, Outcomes
  <2> QED
    BY SMT, <1>1, <1>6, <1>7, <2>1 DEF ReportInv, Tracked
<1>9. ReportersWait'
  <2>1. \A j \in Workers : worker'[j].step # "recv" => j # k /\ worker[j].step # "recv"
    BY <1>1 DEF PipelineInv, TypeOK, Idle
  <2>2. \A j \in Workers \ {k} : thread'[j] = thread[j]
    BY <1>1, <1>6, MainReports, UpdateReports
  <2> QED
    BY <1>1, <1>3, <2>1, <2>2 DEF ReportInv, ReportersWait, Ready
<1> QED
  BY <1>1, <1>3, <1>7, <1>8, <1>9 DEF ReportInv

(* The last report follows the save.                                       *)
LEMMA SaveReports == ASSUME PipelineInv, ReportInv, Save PROVE ReportInv'
<1>1. phase = "save" /\ UNCHANGED <<scanned, worker, stats>>
  BY DEF Save
<1>2. \A k \in Workers : worker[k].step # "recv" => Ready(k)
  BY DEF ReportInv, ReportersWait
<1>3. CASE phase' = "failed" /\ UNCHANGED tracker
  BY <1>1, <1>2, <1>3, Unreported DEF Pooling
<1>4. CASE phase' = "complete" /\ SetPhase(Main, "complete")
  <2> DEFINE p == [progress EXCEPT !.phase = "complete"]
  <2>1. /\ p \in Progress /\ p.phase = "complete" /\ p.total = progress.total
        /\ p.processed = progress.processed /\ p.new = progress.new
        /\ p.unchanged = progress.unchanged
    BY SMT DEF ReportInv, TrackerType, Progress
  <2>2. Update(Main, p)
    BY <1>4 DEF SetPhase
  <2> HIDE DEF p
  <2>3. /\ TrackerType' /\ progress' = p
        /\ thread'[Main].step = "deliver" /\ thread'[Main].snapshot = p
        /\ \A k \in Workers : thread'[k] = thread[k]
    BY <2>1, <2>2, MainReports, UpdateReports
  <2>4. Tracked'
    BY <1>1, <2>1, <2>3 DEF ReportInv, Tracked
  <2>5. ReportersWait'
    BY <1>1, <1>2, <1>4, <2>3 DEF ReportersWait, Ready
  <2>6. Announced'
    BY <2>1, <2>3 DEF Announced
  <2> QED
    BY <1>4, <2>3, <2>4, <2>5, <2>6 DEF ReportInv
<1> QED
  BY <1>3, <1>4 DEF Save

(* A goroutine hands its snapshot to the callback.                         *)
LEMMA CallbackReports ==
  ASSUME PipelineInv, ReportInv, NEW t \in Threads, Report(t) PROVE ReportInv'
<1>1. UNCHANGED <<phase, scanned, worker, stats, progress>>
  BY DEF Report, run, BeginCallback, EndCallback
<1>2. PICK st \in {"ready", "callback"} : thread' = [thread EXCEPT ![t] = [step |-> st]]
  BY DEF Report, BeginCallback, EndCallback
<1>3. [step |-> st] \in ThreadStates
  BY DEF ThreadStates
<1>4. /\ thread \in [Threads -> ThreadStates] /\ thread'[t].step = st
      /\ \A u \in Threads \ {t} : thread'[u] = thread[u]
  BY <1>2 DEF ReportInv, TrackerType
<1>5. ~Ready(t)
  BY DEF Report, BeginCallback, EndCallback, Ready
<1>6. \/ delivered' = delivered /\ thread[t].step # "deliver"
      \/ delivered' = thread[t].snapshot /\ thread[t].step = "deliver"
  BY DEF Report, BeginCallback, EndCallback
<1>7. TrackerType'
  <2>1. thread[t].step = "deliver" => thread[t].snapshot \in Progress
    BY <1>4 DEF ThreadStates
  <2>2. delivered' \in Progress
    BY <1>6, <2>1 DEF ReportInv, TrackerType
  <2> QED
    BY <1>1, <1>2, <1>3, <1>4, <2>2 DEF ReportInv, TrackerType
<1>8. Tracked'
  BY <1>1 DEF ReportInv, Tracked
<1>9. ReportersWait'
  BY <1>1, <1>4, <1>5, MainReports DEF ReportInv, ReportersWait, Ready
<1>10. phase # "complete" => NotAnnounced'
  BY <1>1, <1>4, <1>6 DEF ReportInv, NotAnnounced
<1>11. ASSUME phase = "complete" PROVE Announced'
  <2>1. \A k \in Workers : Ready(k)
    BY <1>11 DEF PipelineInv, PhaseInv, PoolDone, ReportInv, ReportersWait
  <2>2. t = Main
    BY <1>5, <2>1, PipelineAssumption DEF PipelineAssumption
  <2> QED
    BY <1>1, <1>4, <1>6, <1>11, <2>2 DEF ReportInv, Announced
<1> QED
  BY <1>1, <1>7, <1>8, <1>9, <1>10, <1>11 DEF ReportInv

LEMMA ReportStep == PipelineInv /\ ReportInv /\ [Next]_vars => ReportInv'
<1> SUFFICES ASSUME PipelineInv, ReportInv, [Next]_vars PROVE ReportInv'
  OBVIOUS
<1>1. CASE Cancel \/ RunStep
  BY <1>1, RunReports, PrepareReports, ScanReports, SaveReports DEF RunStep
<1>2. ASSUME NEW k \in Workers, Work(k) PROVE ReportInv'
  BY <1>2, WorkerReports, RecordReports DEF Work
<1>3. ASSUME NEW t \in Threads, Report(t) PROVE ReportInv'
  BY <1>3, CallbackReports
<1>4. CASE Stay \/ UNCHANGED vars
  BY <1>4 DEF Stay, vars, run, tracker, ReportInv, TrackerType, Tracked, ReportersWait, Ready,
              NotAnnounced, Announced
<1> QED
  BY <1>1, <1>2, <1>3, <1>4 DEF Next

(* What the progress callback sees last is what the run did: no snapshot   *)
(* of a worker overtakes the report of the end, which is given if and only *)
(* if the manifest was saved (update, simple/progress.go).                 *)
THEOREM LastReportIsTrue == Spec => []CompleteIsLast
<1>1. PipelineInv /\ ReportInv => CompleteIsLast
  <2> SUFFICES ASSUME PipelineInv, ReportInv, Returned PROVE CompleteIsLast
    BY DEF CompleteIsLast
  <2>1. CASE phase # "complete"
    BY <2>1 DEF ReportInv, NotAnnounced, CompleteIsLast
  <2>2. CASE phase = "complete"
    <3>1. delivered = progress /\ progress.phase = "complete"
      BY <2>2 DEF ReportInv, Announced, Returned, Ready
    <3>2. Recorded = scanned
      BY <2>2 DEF PipelineInv, PhaseInv, OnePlace, RecordedInv
    <3>3. SumStats(stats) = Cardinality(scanned)
      BY <3>2 DEF PipelineInv, Counted
    <3> QED
      BY <2>2, <3>1, <3>3 DEF ReportInv, Tracked, CompleteIsLast
  <2> QED
    BY <2>1, <2>2
<1> QED
  BY <1>1, ReportInitial, ReportStep, PipelineInvariant, PTL DEF Spec

-----------------------------------------------------------------------------
(***************************************************************************)
(* Proofs about ManifestStore: that a manifest whose save returned nil     *)
(* stays, that a reader finds what is there to find, and that the latest   *)
(* manifest is the one it returns, for any number of saves, processes,     *)
(* random suffixes and commit attempts.                                    *)
(***************************************************************************)

SaveSteps == Holding \cup {"idle", "ok", "error", "dead"}

(* Past the commit: a save that has linked its manifest or never will.     *)
Past == {"unlink", "sync", "ok", "error", "dead"}

Candidate == [name : Names, mod : Nat]

SaveRec == [step : SaveSteps, attempt : Nat, path : Names \cup {None}]
RmRec == [step : {"idle", "match", "body", "copy", "unlink", "side"},
          op : {"trash", "delete", "trashAll", "deleteAll"},
          sec : Nat, todo : SUBSET Names]
LoadRec == [step : {"idle", "try", "done"}, op : {"latest", "byTimestamp", "list"},
            todo : SUBSET Candidate, listed : SUBSET Manifests,
            expect : SUBSET Manifests, got : SUBSET Manifests]

ManifestTypeOK ==
    /\ setup \in Setup
    /\ dir \in [Names -> Manifests \cup {None}]
    /\ synced \in [Names -> Manifests \cup {None}]
    /\ former \in [Names -> Manifests \cup {None}]
    /\ side \subseteq Names
    /\ trash \in [Names -> Manifests \cup {None, Partial}]
    /\ mtime \in [Manifests -> Nat] /\ clock \in Nat
    /\ bad \subseteq Manifests
    /\ save \in [Saves -> SaveRec] /\ rm \in RmRec /\ load \in LoadRec
    /\ gone \subseteq Manifests /\ trashed \subseteq Manifests

(* The saves that have linked their manifest and not failed since.         *)
Linked == {s \in Saves : save[s].step \in {"unlink", "sync", "ok"}}
SettledIn(sv) == Legacy \cup {s \in Saves : sv[s].step \in Past}
Settled == SettledIn(save)

(* The one name at which a manifest can be.                                *)
HomeIn(sv, m) == IF m \in Legacy THEN Primary(m) ELSE sv[m].path
Home(m) == HomeIn(save, m)

(* d holds manifests at their own name only.                               *)
PlacedIn(d, sv) ==
    \A n \in Names : d[n] # None =>
        d[n] \in SettledIn(sv) /\ HomeIn(sv, d[n]) = n /\ Second[d[n]] = n.sec

Placed == PlacedIn(dir, save) /\ PlacedIn(synced, save) /\ PlacedIn(former, save)

KeptSaves ==
    \A s \in Linked \ gone :
        /\ save[s].path \in Names /\ dir[save[s].path] = s
        /\ save[s].step = "ok" => synced[save[s].path] = s

KeptLegacy ==
    \A l \in setup.legacy \ gone :
        dir[Primary(l)] = l /\ synced[Primary(l)] = l /\ Primary(l) \in side

Kept == KeptSaves /\ KeptLegacy

InTrash == \A m \in trashed : \E n \in Names : trash[n] = m

(* The copy under way, of the file the removal is at.                      *)
CopyInv ==
    \A n \in Names : First(n, rm.todo) =>
        /\ rm.step = "copy" => dir[n] # None /\ trash[n] = Partial
        /\ rm.step = "unlink" => dir[n] # None /\ trash[n] = dir[n]

TrashInv == InTrash /\ CopyInv

(* m is still to be tried, by the name and the time it was listed with.    *)
Waits(m) ==
    \E c \in load.todo : c.name = Home(m) /\ (load.op = "latest" => c.mod = mtime[m])

(* What is returned against what was to be found.                          *)
NoOlder(g, m) ==
    \/ Second[g] > Second[m]
    \/ Second[g] = Second[m] /\ (g \in load.listed => mtime[g] >= mtime[m])

LoadInv ==
    load.step # "idle" =>
        /\ load.expect \subseteq setup.legacy \cup Acked
        /\ load.listed \subseteq Settled /\ load.got \subseteq Settled
        /\ load.op # "list" /\ load.got # {} => load.todo = {}
        /\ load.step = "done" => load.todo = {}
        /\ load.op = "latest" => \A c \in load.todo, g \in load.listed :
                                    Home(g) = c.name => c.mod = mtime[g]
        /\ \A m \in Findable :
             IF load.op = "list" THEN m \in load.got \/ Waits(m)
                                 ELSE load.got # {} \/ Waits(m)
        /\ load.op = "latest" => \A m \in Findable, g \in load.got : NoOlder(g, m)

IInv == ManifestTypeOK /\ Placed /\ Kept /\ TrashInv /\ LoadInv

-----------------------------------------------------------------------------
(* Types                                                                   *)

LEMMA Facts ==
    /\ Saves \cap Legacy = {} /\ None \notin Manifests /\ Partial \notin Manifests
    /\ Second \in [Manifests -> Nat]
    /\ ProcOf \in [Saves -> Procs] /\ RemoverProc \in Procs
    /\ Saves \subseteq Manifests /\ Legacy \subseteq Manifests
    /\ \A m \in Manifests : Primary(m) \in Names
    /\ \A n \in Names : n.sec \in Nat /\ n.suf \in Nat
<1>1. Seconds \subseteq Nat /\ \A m \in Manifests : Second[m] \in Seconds
  BY ManifestAssumption DEF ManifestAssumption, Seconds
<1>2. Saves \cap Legacy = {} /\ None \notin Manifests /\ Partial \notin Manifests
  BY ManifestAssumption DEF ManifestAssumption
<1>3. Second \in [Manifests -> Nat] /\ ProcOf \in [Saves -> Procs] /\ RemoverProc \in Procs
  BY ManifestAssumption DEF ManifestAssumption
<1>4. \A m \in Manifests : Primary(m) \in Names
  BY <1>1 DEF Names, Primary
<1>5. HexSuffixes \cup {0} \subseteq Nat
  BY SMT, ManifestAssumption DEF ManifestAssumption
<1>6. \A n \in Names : n.sec \in Nat /\ n.suf \in Nat
  BY <1>1, <1>5 DEF Names
<1>7. Saves \subseteq Manifests /\ Legacy \subseteq Manifests
  BY DEF Manifests
<1> QED BY <1>2, <1>3, <1>4, <1>6, <1>7

LEMMA InitType == ManifestInit => ManifestTypeOK
<1> SUFFICES ASSUME ManifestInit PROVE ManifestTypeOK
  OBVIOUS
<1>1. setup \in Setup
  BY ManifestAssumption DEF ManifestInit, ManifestAssumption
<1>2. setup.legacy \subseteq Legacy
  BY <1>1 DEF Setup
<1>3. dir \in [Names -> Manifests \cup {None}]
  <2>1. ASSUME NEW n \in Names, \E m \in setup.legacy : n = Primary(m)
        PROVE  (CHOOSE m \in setup.legacy : n = Primary(m)) \in setup.legacy
    BY <2>1
  <2> QED BY <2>1, <1>2, Facts DEF ManifestInit
<1>4. side \subseteq Names
  BY <1>2, Facts DEF ManifestInit
<1>5. /\ former \in [Names -> Manifests \cup {None}]
      /\ trash \in [Names -> Manifests \cup {None, Partial}]
  BY DEF ManifestInit, NoFiles
<1>6. QED
  BY <1>1, <1>3, <1>4, <1>5, Facts
     DEF ManifestInit, ManifestTypeOK, NoSave, NoRemoval, NoLoad, SaveSteps, Holding, SaveRec,
         RmRec, LoadRec

(* Going to the next step keeps the type of the calls.                     *)
LEMMA SaveToType ==
    ASSUME save \in [Saves -> SaveRec], NEW s \in Saves, NEW st \in SaveSteps
    PROVE  [save EXCEPT ![s].step = st] \in [Saves -> SaveRec]
<1>1. [save[s] EXCEPT !.step = st] \in SaveRec
  BY DEF SaveRec
<1> QED BY <1>1

LEMMA SaveType ==
    ASSUME ManifestTypeOK, NEW s \in Saves, SaveStep(s)
    PROVE  ManifestTypeOK'
<1> USE Facts, SaveToType DEF ManifestTypeOK, SaveTo, SaveFrame
<1>0. /\ "mkdir" \in SaveSteps /\ "stage" \in SaveSteps /\ "commit" \in SaveSteps
      /\ "unlink" \in SaveSteps /\ "sync" \in SaveSteps /\ "ok" \in SaveSteps
      /\ "error" \in SaveSteps
  BY DEF SaveSteps, Holding
<1>1. CASE SaveLock(s)
  BY <1>0, <1>1 DEF SaveLock
<1>2. CASE SaveMkdir(s)
  BY SMT, <1>0, <1>2 DEF SaveMkdir
<1>3. CASE SaveStage(s)
  <2>1. clock' \in Nat /\ mtime' \in [Manifests -> Nat]
    BY SMT, <1>3 DEF SaveStage, WriteStagingFile
  <2> QED BY SMT, <1>0, <1>3, <2>1 DEF SaveStage, WriteStagingFile
<1>4. CASE SaveCommit(s)
  <2>1. PICK n \in Candidates(s) : Link(s, n)
    BY <1>4 DEF SaveCommit
  <2>2. n \in Names
    BY <2>1, ManifestAssumption
       DEF Candidates, Names, Primary, Seconds, ManifestAssumption
  <2>3. dir' \in [Names -> Manifests \cup {None}]
    BY SMT, <2>1, <2>2 DEF Link
  <2>4. save' \in [Saves -> SaveRec]
    <3>1. save[s] \in SaveRec
      OBVIOUS
    <3>2. save'[s] \in SaveRec
      BY SMT, <1>0, <2>1, <2>2, <3>1 DEF Link, SaveRec
    <3>3. save' = [save EXCEPT ![s] = save'[s]]
      BY <2>1 DEF Link
    <3> QED BY <3>2, <3>3
  <2> QED BY <1>4, <2>3, <2>4 DEF SaveCommit
<1>5. CASE SaveGiveUp(s)
  BY <1>0, <1>5 DEF SaveGiveUp
<1>6. CASE SaveUnlink(s)
  BY SMT, <1>0, <1>6 DEF SaveUnlink
<1>7. CASE SaveSync(s)
  BY SMT, <1>0, <1>7 DEF SaveSync
<1> QED BY <1>1, <1>2, <1>3, <1>4, <1>5, <1>6, <1>7 DEF SaveStep

LEMMA ReaderType ==
    ASSUME ManifestTypeOK, Reader
    PROVE  ManifestTypeOK'
<1> USE Facts DEF ManifestTypeOK, files
<1>1. ASSUME NEW op \in {"latest", "byTimestamp", "list"}, NEW sec, LoadBegin(op, sec)
      PROVE  ManifestTypeOK'
  <2>1. Listing(op, sec) \subseteq Candidate
    <3>1. ASSUME NEW n \in Names, dir[n] # None
          PROVE  [name |-> n, mod |-> IF op = "latest" THEN mtime[dir[n]] ELSE 0] \in Candidate
      BY <3>1 DEF Candidate
    <3> QED BY SMT, <3>1 DEF Listing, Present
  <2>2. {dir[n] : n \in {k \in Present : op = "latest"}} \subseteq Manifests
    BY SMT DEF Present
  <2>3. setup.legacy \cup Acked \subseteq Manifests
    BY DEF Setup, Acked
  <2>4. load' \in LoadRec
    BY <1>1, <2>1, <2>2, <2>3 DEF LoadBegin, LoadRec
  <2> QED BY <1>1, <2>4 DEF LoadBegin
<1>2. CASE LoadTry
  <2>1. PICK c \in load.todo :
          (Loadable(c.name) /\ load' = Taken(c)) \/ load' = Skipped(c)
    BY <1>2 DEF LoadTry
  <2>2. Loadable(c.name) => dir[c.name] \in Manifests
    BY <2>1 DEF Loadable, LoadRec, Candidate
  <2>3. Loadable(c.name) => Taken(c) \in LoadRec
    BY <2>2 DEF Taken, LoadRec
  <2>4. Skipped(c) \in LoadRec
    BY DEF Skipped, LoadRec
  <2> QED BY <1>2, <2>1, <2>3, <2>4 DEF LoadTry
<1>3. CASE LoadEnd
  <2>1. load' \in LoadRec
    BY <1>3 DEF LoadEnd, LoadRec
  <2> QED BY <1>3, <2>1 DEF LoadEnd
<1>4. CASE LoadReturn
  <2>1. load' \in LoadRec
    BY <1>4 DEF LoadReturn, NoLoad, LoadRec
  <2> QED BY <1>4, <2>1 DEF LoadReturn
<1> QED BY <1>1, <1>2, <1>3, <1>4 DEF Reader

LEMMA RmNextType ==
    ASSUME rm \in RmRec, NEW n, RmNext(n)
    PROVE  rm' \in RmRec
  BY DEF RmNext, RmRec, FirstMove

LEMMA RmToType ==
    ASSUME rm \in RmRec, NEW st \in {"idle", "match", "body", "copy", "unlink", "side"}
    PROVE  [rm EXCEPT !.step = st] \in RmRec
  BY DEF RmRec

LEMMA RmTodoType ==
    ASSUME NEW r \in RmRec, NEW ns \in SUBSET Names
    PROVE  [r EXCEPT !.todo = ns] \in RmRec
  BY DEF RmRec

LEMMA NoRemovalType == NoRemoval \in RmRec
  BY DEF NoRemoval, RmRec

LEMMA MovedType ==
    ASSUME ManifestTypeOK, NEW n \in Names, dir[n] # None, Moved(n)
    PROVE  /\ dir' \in [Names -> Manifests \cup {None}] /\ gone' \subseteq Manifests
           /\ trashed' \subseteq Manifests /\ rm' \in RmRec
  BY RmToType DEF ManifestTypeOK, Moved

LEMMA RemoverType ==
    ASSUME ManifestTypeOK, TrashInv, Remover
    PROVE  ManifestTypeOK'
<1> USE Facts DEF ManifestTypeOK, RmFrame
<1>1. ASSUME NEW op \in {"trash", "delete", "trashAll", "deleteAll"},
             NEW sec \in Nat, RmBegin(op, sec)
      PROVE  ManifestTypeOK'
  <2>1. rm' \in RmRec
    BY <1>1 DEF RmBegin, RmRec, FirstMove, Present
  <2> QED BY <1>1, <2>1 DEF RmBegin
<1>2. CASE RmMatch
  <2>1. ASSUME NEW n \in rm.todo PROVE Matched(n) \in RmRec
    <3>1. FirstMove(rm.op) \in {"body", "side"}
      BY DEF FirstMove
    <3>2. n \in Names
      BY <2>1 DEF RmRec
    <3>3. [rm EXCEPT !.step = FirstMove(rm.op)] \in RmRec
      BY <3>1, RmToType
    <3> QED BY <3>2, <3>3, RmTodoType DEF Matched
  <2>2. \A n \in rm.todo : Passed(n) \in RmRec
    BY DEF Passed, RmRec
  <2> QED BY SMT, <1>2, <2>1, <2>2, NoRemovalType DEF RmMatch
<1>3. ASSUME NEW n \in Names, RmBody(n) PROVE ManifestTypeOK'
  <2>1. /\ dir' \in [Names -> Manifests \cup {None}] /\ gone' \subseteq Manifests
        /\ trashed' \subseteq Manifests /\ rm' \in RmRec
    <3>1. CASE dir[n] # None /\ Moved(n)
      BY <3>1, MovedType
    <3>2. CASE ~(dir[n] # None /\ Moved(n))
      <4>1. rm' = [rm EXCEPT !.step = "copy"] \/ RmNext(n)
        BY <1>3, <3>2 DEF RmBody
      <4>2. rm' \in RmRec
        BY <4>1, RmNextType, RmToType
      <4> QED BY SMT, <1>3, <3>2, <4>2 DEF RmBody
    <3> QED BY <3>1, <3>2
  <2>2. trash' \in [Names -> Manifests \cup {None, Partial}]
    BY <1>3 DEF RmBody
  <2> QED BY <1>3, <2>1, <2>2 DEF RmBody
<1>4. ASSUME NEW n \in Names, RmCopy(n) PROVE ManifestTypeOK'
  <2>1. rm' \in RmRec
    BY <1>4, RmNextType, RmToType DEF RmCopy
  <2>2. trash' \in [Names -> Manifests \cup {None, Partial}]
    BY <1>4 DEF RmCopy
  <2> QED BY <1>4, <2>1, <2>2 DEF RmCopy
<1>5. ASSUME NEW n \in Names, RmUnlink(n) PROVE ManifestTypeOK'
  <2>1. dir[n] # None
    BY <1>5 DEF RmUnlink, TrashInv, CopyInv
  <2>2. /\ dir' \in [Names -> Manifests \cup {None}] /\ gone' \subseteq Manifests
        /\ trashed' \subseteq Manifests /\ rm' \in RmRec
    BY <1>5, <2>1, MovedType, RmToType DEF RmUnlink
  <2> QED BY <1>5, <2>2 DEF RmUnlink
<1>6. ASSUME NEW n \in Names, RmSide(n) PROVE ManifestTypeOK'
  <2>1. rm' \in RmRec
    BY <1>6, RmNextType, RmToType DEF RmSide
  <2> QED BY <1>6, <2>1 DEF RmSide
<1>7. CASE RmEnd
  <2>1. former' \in {former, synced} /\ synced' \in {synced, NoFiles}
    BY <1>7 DEF RmEnd
  <2> QED BY <1>7, <2>1, NoRemovalType DEF RmEnd, NoFiles
<1>8. Seconds \subseteq Nat
  BY SMT DEF Seconds
<1> HIDE DEF ManifestTypeOK, RmFrame
<1> QED BY <1>1, <1>2, <1>3, <1>4, <1>5, <1>6, <1>7, <1>8 DEF Remover

LEMMA DieType ==
    ASSUME ManifestTypeOK, NEW ps, Die(ps)
    PROVE  save' \in [Saves -> SaveRec] /\ rm' \in RmRec
<1>1. \A s \in Saves : save[s] \in SaveRec /\ [save[s] EXCEPT !.step = "dead"] \in SaveRec
  BY DEF ManifestTypeOK, SaveRec, SaveSteps
<1> QED BY <1>1, NoRemovalType DEF Die, ManifestTypeOK

LEMMA LegacyFacts ==
    ASSUME ManifestTypeOK
    PROVE  \A l \in setup.legacy : l \in Legacy /\ l # None /\ Primary(l) \in Names
  BY Facts DEF ManifestTypeOK, Setup

LEMMA NextType ==
    ASSUME ManifestTypeOK, TrashInv, [ManifestNext]_manifestVars
    PROVE  ManifestTypeOK'
<1>1. CASE CleanTrash
  BY <1>1 DEF CleanTrash, ManifestTypeOK
<1>2. CASE Rot
  <2>1. \A n \in Present : dir[n] \in Manifests
    BY DEF ManifestTypeOK, Present
  <2> QED BY <1>2, <2>1 DEF Rot, ManifestTypeOK, files
<1>3. ASSUME NEW p \in Procs, Kill(p) PROVE ManifestTypeOK'
  BY <1>3, DieType DEF Kill, ManifestTypeOK, files
<1>4. CASE PowerLoss
  <2>1. load' \in LoadRec
    BY <1>4 DEF PowerLoss, NoLoad, LoadRec
  <2>2. dir' \in [Names -> Manifests \cup {None}]
    <3>1. ASSUME NEW d \in [Names -> Manifests \cup {None}],
                 NEW e \in [Names -> Manifests \cup {None}], dir' \in Survivors(d, e)
          PROVE  dir' \in [Names -> Manifests \cup {None}]
      BY <3>1 DEF Survivors
    <3>2. NoFiles \in [Names -> Manifests \cup {None}]
      BY DEF NoFiles
    <3>3. dir' \in Survivors(dir, synced) \/ dir' \in Survivors(NoFiles, former)
      BY <1>4 DEF PowerLoss
    <3> QED BY <3>1, <3>2, <3>3 DEF ManifestTypeOK
  <2>3. side' \subseteq Names
    <3>1. side' \in SUBSET {Primary(m) : m \in setup.legacy}
      BY <1>4 DEF PowerLoss
    <3>2. {Primary(m) : m \in setup.legacy} \subseteq Names
      BY LegacyFacts
    <3> QED BY <3>1, <3>2
  <2>4. gone' \subseteq Manifests
    BY <1>4, LegacyFacts, Facts DEF PowerLoss, Acked, ManifestTypeOK
  <2>5. trash' \in [Names -> Manifests \cup {None, Partial}]
    BY <1>4 DEF PowerLoss, ManifestTypeOK
  <2> QED BY <1>4, <2>1, <2>2, <2>3, <2>4, <2>5, DieType
          DEF PowerLoss, ManifestTypeOK, NoFiles
<1>5. CASE UNCHANGED manifestVars
  BY <1>5 DEF manifestVars, ManifestTypeOK
<1> QED BY <1>1, <1>2, <1>3, <1>4, <1>5, SaveType, ReaderType, RemoverType DEF ManifestNext

-----------------------------------------------------------------------------
(* What every step leaves as it is                                         *)

(* A save past its commit stays past it and keeps its path and its time, a *)
(* save that returned nil has returned it, and what is gone or damaged  *)
(* is never taken for whole again.                                         *)
Stays ==
    /\ setup' = setup /\ gone \subseteq gone' /\ bad \subseteq bad'
    /\ \A s \in Saves : save[s].step \in Past =>
          /\ save'[s].step \in Past
          /\ save'[s].path = save[s].path /\ mtime'[s] = mtime[s]
    /\ \A l \in Legacy : mtime'[l] = mtime[l]
    /\ \A s \in Saves : save[s].step = "ok" => save'[s].step = "ok"

LEMMA SaveToStep ==
    ASSUME ManifestTypeOK, NEW s \in Saves, NEW st, SaveTo(s, st)
    PROVE  /\ save'[s].step = st /\ save'[s].path = save[s].path
           /\ \A t \in Saves \ {s} : save'[t] = save[t]
  BY DEF SaveTo, ManifestTypeOK, SaveRec

LEMMA StaysSave ==
    ASSUME ManifestTypeOK, NEW s \in Saves, SaveStep(s)
    PROVE  Stays
<1> USE Facts, SaveToStep DEF SaveFrame, Past, Stays
<1>1. CASE SaveLock(s)
  BY <1>1 DEF SaveLock
<1>2. CASE SaveMkdir(s)
  BY <1>2 DEF SaveMkdir
<1>3. CASE SaveStage(s)
  BY SMT, <1>3 DEF SaveStage, WriteStagingFile, ManifestTypeOK
<1>4. CASE SaveCommit(s)
  <2>1. save[s].step = "commit" /\ \A t \in Saves \ {s} : save'[t] = save[t]
    BY <1>4 DEF SaveCommit, Link, ManifestTypeOK
  <2>2. UNCHANGED <<setup, gone, bad, mtime>>
    BY <1>4 DEF SaveCommit
  <2> QED BY <2>1, <2>2
<1>5. CASE SaveGiveUp(s)
  BY <1>5 DEF SaveGiveUp
<1>6. CASE SaveUnlink(s)
  BY <1>6 DEF SaveUnlink
<1>7. CASE SaveSync(s)
  BY <1>7 DEF SaveSync
<1> QED BY <1>1, <1>2, <1>3, <1>4, <1>5, <1>6, <1>7 DEF SaveStep

LEMMA ReaderFrame ==
    Reader => UNCHANGED <<setup, dir, synced, former, side, trash, mtime, bad, save, rm,
                          gone, trashed>>
<1> USE DEF files
<1>1. ASSUME NEW op, NEW sec, LoadBegin(op, sec)
      PROVE  UNCHANGED <<setup, dir, synced, former, side, trash, mtime, bad, save, rm,
                         gone, trashed>>
  BY <1>1 DEF LoadBegin
<1>2. LoadTry => UNCHANGED <<setup, dir, synced, former, side, trash, mtime, bad, save, rm,
                             gone, trashed>>
  BY DEF LoadTry
<1>3. LoadEnd \/ LoadReturn =>
        UNCHANGED <<setup, dir, synced, former, side, trash, mtime, bad, save, rm,
                    gone, trashed>>
  BY DEF LoadEnd, LoadReturn
<1> QED BY <1>1, <1>2, <1>3 DEF Reader

LEMMA StaysReader == ASSUME Reader PROVE Stays
  BY ReaderFrame DEF Stays

(* The directory, empty, is removed.                                       *)
Emptied == Present = {} /\ synced' = NoFiles /\ former' \in {synced, former}

LEMMA RemoverFrame ==
    Remover => /\ UNCHANGED <<setup, mtime, bad, save, load>>
               /\ UNCHANGED <<synced, former>> \/ (dir' = dir /\ Emptied)
               /\ gone \subseteq gone'
               /\ \/ \E n \in Names : RmBody(n) \/ RmUnlink(n) \/ RmSide(n)
                  \/ dir' = dir /\ side' = side
<1> USE DEF RmFrame
<1>1. ASSUME NEW op, NEW sec, RmBegin(op, sec)
      PROVE  /\ UNCHANGED <<setup, synced, former, mtime, bad, save, load, gone>>
             /\ dir' = dir /\ side' = side
  BY <1>1 DEF RmBegin
<1>2. RmMatch => /\ UNCHANGED <<setup, synced, former, mtime, bad, save, load, gone>>
                 /\ dir' = dir /\ side' = side
  BY DEF RmMatch
<1>3. ASSUME NEW n \in Names, RmBody(n)
      PROVE  UNCHANGED <<setup, synced, former, mtime, bad, save, load>> /\ gone \subseteq gone'
  BY <1>3 DEF RmBody, Moved
<1>4. ASSUME NEW n \in Names, RmCopy(n)
      PROVE  /\ UNCHANGED <<setup, synced, former, mtime, bad, save, load, gone>>
             /\ dir' = dir /\ side' = side
  BY <1>4 DEF RmCopy
<1>5. ASSUME NEW n \in Names, RmUnlink(n)
      PROVE  UNCHANGED <<setup, synced, former, mtime, bad, save, load>> /\ gone \subseteq gone'
  BY <1>5 DEF RmUnlink, Moved
<1>6. ASSUME NEW n \in Names, RmSide(n)
      PROVE  UNCHANGED <<setup, synced, former, mtime, bad, save, load>> /\ gone \subseteq gone'
  BY <1>6 DEF RmSide
<1>7. RmEnd => /\ UNCHANGED <<setup, mtime, bad, save, load, gone>>
               /\ UNCHANGED <<synced, former>> \/ Emptied
               /\ dir' = dir /\ side' = side
  BY DEF RmEnd, Vacant, Emptied
<1> QED BY <1>1, <1>2, <1>3, <1>4, <1>5, <1>6, <1>7 DEF Remover

LEMMA StaysRemover == ASSUME Remover PROVE Stays
  BY RemoverFrame DEF Stays

LEMMA StaysDie ==
    ASSUME ManifestTypeOK, NEW ps, Die(ps), setup' = setup, gone \subseteq gone',
           bad' = bad, mtime' = mtime
    PROVE  Stays
<1>1. \A s \in Saves : [save[s] EXCEPT !.step = "dead"].path = save[s].path
  BY DEF ManifestTypeOK, SaveRec
<1>2. \A s \in Saves : [save[s] EXCEPT !.step = "dead"].step = "dead"
  BY DEF ManifestTypeOK, SaveRec
<1> QED BY <1>1, <1>2 DEF Die, Stays, Past, Holding

LEMMA NextStays == ASSUME ManifestTypeOK, [ManifestNext]_manifestVars PROVE Stays
<1>1. CASE CleanTrash
  BY <1>1 DEF CleanTrash, Stays
<1>2. CASE Rot
  BY <1>2 DEF Rot, files, Stays
<1>3. ASSUME NEW p \in Procs, Kill(p) PROVE Stays
  BY <1>3, StaysDie DEF Kill, files
<1>4. CASE PowerLoss
  BY <1>4, StaysDie DEF PowerLoss
<1>5. CASE UNCHANGED manifestVars
  BY <1>5 DEF manifestVars, Stays
<1> QED BY <1>1, <1>2, <1>3, <1>4, <1>5, StaysSave, StaysReader, StaysRemover DEF ManifestNext

-----------------------------------------------------------------------------
(* Where the manifests are                                                 *)

(* A directory that only loses names keeps its manifests in their places.  *)
LEMMA PlacedShrinks ==
    ASSUME NEW d, NEW e, NEW sv, NEW tv, PlacedIn(d, sv),
           \A s \in Saves : sv[s].step \in Past =>
               tv[s].step \in Past /\ tv[s].path = sv[s].path,
           \A n \in Names : e[n] = None \/ e[n] = d[n]
    PROVE  PlacedIn(e, tv)
<1> SUFFICES ASSUME NEW n \in Names, e[n] # None
             PROVE  /\ e[n] \in SettledIn(tv) /\ HomeIn(tv, e[n]) = n
                    /\ Second[e[n]] = n.sec
  BY DEF PlacedIn
<1>1. /\ e[n] \in SettledIn(sv) /\ HomeIn(sv, e[n]) = n /\ Second[e[n]] = n.sec
  BY DEF PlacedIn
<1> QED BY <1>1 DEF SettledIn, HomeIn

LEMMA PlacedUnion ==
    ASSUME NEW d, NEW e, NEW f, NEW sv, PlacedIn(d, sv), PlacedIn(e, sv),
           \A n \in Names : f[n] = d[n] \/ f[n] = e[n]
    PROVE  PlacedIn(f, sv)
<1> SUFFICES ASSUME NEW n \in Names, f[n] # None
             PROVE  /\ f[n] \in SettledIn(sv) /\ HomeIn(sv, f[n]) = n
                    /\ Second[f[n]] = n.sec
  BY DEF PlacedIn
<1> QED BY DEF PlacedIn

(* A removal takes manifests out of the directory and does nothing else to *)
(* it or to the saves.                                                     *)
LEMMA RemoverDir ==
    ASSUME ManifestTypeOK, Remover
    PROVE  /\ save' = save /\ load' = load
           /\ UNCHANGED <<synced, former>> \/ (dir' = dir /\ Emptied)
           /\ \A n \in Names : dir'[n] = dir[n] \/ (dir'[n] = None /\ dir[n] \in gone')
           /\ \A n \in side \ side' : dir[n] \in Legacy => dir[n] \in gone'
<1> USE DEF ManifestTypeOK, RmFrame
<1>1. ASSUME NEW n \in Names, RmBody(n) \/ RmUnlink(n)
      PROVE  /\ side' = side
             /\ \A k \in Names : dir'[k] = dir[k] \/ (dir'[k] = None /\ dir[k] \in gone')
  BY <1>1 DEF RmBody, RmUnlink, Moved
<1>2. ASSUME NEW n \in Names, RmSide(n)
      PROVE  dir' = dir /\ \A k \in side \ side' : dir[k] \in Legacy => dir[k] \in gone'
  BY <1>2 DEF RmSide
<1> HIDE DEF ManifestTypeOK, RmFrame
<1> QED BY <1>1, <1>2, RemoverFrame

(* s takes the free name n.                                                *)
Links(s, n) ==
    /\ save[s].step = "commit" /\ dir[n] = None /\ n.sec = Second[s]
    /\ dir' = [dir EXCEPT ![n] = s]
    /\ save'[s].step = "unlink" /\ save'[s].path = n

LEMMA SaveDir ==
    ASSUME ManifestTypeOK, NEW s \in Saves, SaveStep(s)
    PROVE  /\ \A t \in Saves \ {s} : save'[t] = save[t]
           /\ \/ /\ dir' = dir
                 /\ save'[s].step \in {"unlink", "sync", "ok"} =>
                       /\ save[s].step \in {"unlink", "sync", "ok"}
                       /\ save'[s].path = save[s].path
              \/ \E n \in Names : Links(s, n)
           /\ \/ synced' = synced /\ (save'[s].step = "ok" => save[s].step = "ok")
              \/ synced' = dir /\ dir' = dir
           /\ side' = side /\ gone' = gone /\ setup' = setup /\ former' = former
           /\ rm' = rm /\ load' = load /\ trash' = trash /\ trashed' = trashed
           /\ bad' = bad
<1> USE Facts, SaveToStep DEF SaveFrame
<1>1. CASE SaveLock(s)
  BY SMT, <1>1 DEF SaveLock
<1>2. CASE SaveMkdir(s)
  BY SMT, <1>2 DEF SaveMkdir
<1>3. CASE SaveStage(s)
  BY SMT, <1>3 DEF SaveStage, WriteStagingFile
<1>4. CASE SaveCommit(s)
  <2>1. PICK n \in Candidates(s) : Link(s, n)
    BY <1>4 DEF SaveCommit
  <2>2. n \in Names /\ n.sec = Second[s]
    BY SMT, <2>1, ManifestAssumption
       DEF Candidates, Names, Primary, Seconds, ManifestAssumption
  <2>3. \A t \in Saves \ {s} : save'[t] = save[t]
    BY <2>1 DEF Link, ManifestTypeOK
  <2>4. \/ Links(s, n)
        \/ dir' = dir /\ save'[s].step \notin {"unlink", "sync", "ok"}
    BY SMT, <1>4, <2>1, <2>2 DEF SaveCommit, Link, Links, ManifestTypeOK, SaveRec
  <2>5. save'[s].step # "ok"
    BY <2>4 DEF Links
  <2> QED BY <1>4, <2>2, <2>3, <2>4, <2>5 DEF SaveCommit
<1>5. CASE SaveGiveUp(s)
  BY SMT, <1>5 DEF SaveGiveUp
<1>6. CASE SaveUnlink(s)
  BY SMT, <1>6 DEF SaveUnlink
<1>7. CASE SaveSync(s)
  BY SMT, <1>7 DEF SaveSync
<1> QED BY <1>1, <1>2, <1>3, <1>4, <1>5, <1>6, <1>7 DEF SaveStep

LEMMA PlacedSave ==
    ASSUME ManifestTypeOK, Placed, NEW s \in Saves, SaveStep(s)
    PROVE  Placed'
<1> USE Facts
<1>1. \A t \in Saves : save[t].step \in Past =>
          save'[t].step \in Past /\ save'[t].path = save[t].path
  BY StaysSave DEF Stays
<1>2. PlacedIn(dir, save') /\ PlacedIn(synced, save') /\ PlacedIn(former, save')
  <2>1. ASSUME NEW d, PlacedIn(d, save) PROVE PlacedIn(d, save')
    BY <1>1, <2>1, PlacedShrinks
  <2> QED BY <2>1 DEF Placed
<1>3. ASSUME NEW n \in Names, Links(s, n)
      PROVE  PlacedIn(dir', save')
  <2>1. dir'[n] = s /\ \A k \in Names \ {n} : dir'[k] = dir[k]
    BY <1>3 DEF Links, ManifestTypeOK
  <2>2. s \in SettledIn(save') /\ HomeIn(save', s) = n /\ Second[s] = n.sec
    BY <1>3 DEF Links, SettledIn, HomeIn, Past
  <2> QED BY <1>2, <2>1, <2>2 DEF PlacedIn
<1>4. PlacedIn(dir', save')
  BY <1>2, <1>3, SaveDir
<1>5. PlacedIn(synced', save') /\ PlacedIn(former', save')
  BY <1>2, SaveDir
<1> QED BY <1>4, <1>5 DEF Placed

LEMMA DieSteps ==
    ASSUME ManifestTypeOK, NEW ps, Die(ps)
    PROVE  \A s \in Saves : /\ save'[s].path = save[s].path
                            /\ \/ save'[s] = save[s]
                               \/ save[s].step # "ok" /\ save'[s].step = "dead"
<1>1. \A s \in Saves : [save[s] EXCEPT !.step = "dead"].path = save[s].path
  BY DEF ManifestTypeOK, SaveRec
<1>2. \A s \in Saves : [save[s] EXCEPT !.step = "dead"].step = "dead"
  BY DEF ManifestTypeOK, SaveRec
<1> QED BY <1>1, <1>2 DEF Die, Holding

LEMMA NoFilesPlaced == ASSUME NEW sv PROVE PlacedIn(NoFiles, sv)
  BY DEF PlacedIn, NoFiles

LEMMA PlacedNext ==
    ASSUME ManifestTypeOK, Placed, [ManifestNext]_manifestVars
    PROVE  Placed'
<1>1. CASE PowerLoss
  <2>1. \/ \A n \in Names : dir'[n] = dir[n] \/ dir'[n] = synced[n]
        \/ \A n \in Names : dir'[n] = NoFiles[n] \/ dir'[n] = former[n]
    BY <1>1 DEF PowerLoss, Survivors
  <2>2. PlacedIn(dir', save)
    BY SMT, <2>1, PlacedUnion, NoFilesPlaced DEF Placed
  <2>3. PlacedIn(dir', save')
    BY SMT, <2>2, PlacedShrinks, NextStays DEF Stays
  <2> QED BY <1>1, <2>3, NoFilesPlaced DEF PowerLoss, Placed
<1>2. CASE Remover
  <2>1. PlacedIn(dir', save)
    BY SMT, <1>2, RemoverDir, PlacedShrinks DEF Placed
  <2>2. PlacedIn(synced', save) /\ PlacedIn(former', save)
    BY <1>2, RemoverDir, NoFilesPlaced DEF Placed, Emptied
  <2> QED BY <1>2, <2>1, <2>2, RemoverDir DEF Placed
<1>3. ASSUME dir' = dir, synced' = synced, former' = former PROVE Placed'
  BY SMT, <1>3, PlacedShrinks, NextStays DEF Placed, Stays
<1>4. CASE Reader
  BY <1>3, <1>4, ReaderFrame
<1>5. CASE CleanTrash \/ Rot \/ \E p \in Procs : Kill(p)
  BY <1>3, <1>5 DEF CleanTrash, Rot, Kill, files
<1>6. CASE UNCHANGED manifestVars
  BY <1>3, <1>6 DEF manifestVars
<1> QED BY <1>1, <1>2, <1>4, <1>5, <1>6, PlacedSave DEF ManifestNext

-----------------------------------------------------------------------------
(* What was saved and is not gone is there                                 *)

LEMMA KeptSave ==
    ASSUME ManifestTypeOK, Kept, NEW s \in Saves, SaveStep(s)
    PROVE  Kept'
<1> USE Facts
<1>1. \A n \in Names : dir[n] # None => dir'[n] = dir[n]
  BY SaveDir DEF Links, ManifestTypeOK
<1>2. gone' = gone /\ setup' = setup /\ side' = side
  BY SaveDir
<1>3. synced' = synced \/ synced' = dir
  BY SaveDir
<1>4. KeptSaves'
  <2> SUFFICES ASSUME NEW t \in Saves, save'[t].step \in {"unlink", "sync", "ok"},
                      t \notin gone
               PROVE  /\ save'[t].path \in Names /\ dir'[save'[t].path] = t
                      /\ save'[t].step = "ok" => synced'[save'[t].path] = t
    BY <1>2 DEF KeptSaves, Linked
  <2>1. CASE t # s
    <3>1. save'[t] = save[t]
      BY <2>1, SaveDir
    <3>2. /\ save[t].path \in Names /\ dir[save[t].path] = t
          /\ save[t].step = "ok" => synced[save[t].path] = t
      BY <3>1 DEF Kept, KeptSaves, Linked
    <3> QED BY <3>1, <3>2, <1>1, <1>3
  <2>2. CASE t = s
    <3>1. CASE dir' = dir
      <4>1. save[s].step \in {"unlink", "sync", "ok"} /\ save'[s].path = save[s].path
        <5>1. \A n \in Names : ~Links(s, n)
          BY SMT, <3>1 DEF Links, ManifestTypeOK
        <5> QED BY <5>1, <2>2, SaveDir
      <4>2. /\ save[s].path \in Names /\ dir[save[s].path] = s
            /\ save[s].step = "ok" => synced[save[s].path] = s
        BY <4>1, <2>2 DEF Kept, KeptSaves, Linked
      <4>3. \/ synced' = synced /\ (save'[s].step = "ok" => save[s].step = "ok")
            \/ synced' = dir
        BY SaveDir
      <4> QED BY <4>1, <4>2, <4>3, <3>1, <2>2
    <3>2. ASSUME NEW n \in Names, Links(s, n)
          PROVE  save'[s].path = n /\ dir'[n] = s /\ save'[s].step = "unlink"
      BY <3>2 DEF Links, ManifestTypeOK
    <3> QED BY <2>2, <3>1, <3>2, SaveDir
  <2> QED BY <2>1, <2>2
<1>5. KeptLegacy'
  <2> SUFFICES ASSUME NEW l \in setup.legacy, l \notin gone
               PROVE  /\ dir'[Primary(l)] = l /\ synced'[Primary(l)] = l
                      /\ Primary(l) \in side
    BY <1>2 DEF KeptLegacy, Primary
  <2>1. dir[Primary(l)] = l /\ synced[Primary(l)] = l /\ Primary(l) \in side
    BY DEF Kept, KeptLegacy
  <2> QED BY <2>1, <1>1, <1>3, LegacyFacts
<1> QED BY <1>4, <1>5 DEF Kept

LEMMA KeptRemover ==
    ASSUME ManifestTypeOK, Kept, Remover
    PROVE  Kept'
<1> USE Facts
<1>0. gone \subseteq gone' /\ setup' = setup
  BY StaysRemover DEF Stays
<1> DEFINE lives(m) == \E n \in Names : dir[n] = m
<1>a. ASSUME NEW m \in Manifests, lives(m) PROVE synced' = synced
  BY <1>a, RemoverDir DEF Emptied, Present
<1>1. KeptSaves'
  <2> SUFFICES ASSUME NEW t \in Saves, save[t].step \in {"unlink", "sync", "ok"},
                      t \notin gone'
               PROVE  /\ save[t].path \in Names /\ dir'[save[t].path] = t
                      /\ save[t].step = "ok" => synced'[save[t].path] = t
    BY RemoverDir DEF KeptSaves, Linked
  <2>1. /\ save[t].path \in Names /\ dir[save[t].path] = t
        /\ save[t].step = "ok" => synced[save[t].path] = t
    BY <1>0 DEF Kept, KeptSaves, Linked
  <2>2. synced' = synced
    BY <1>a, <2>1
  <2> QED BY <2>1, <2>2, RemoverDir
<1>2. KeptLegacy'
  <2> SUFFICES ASSUME NEW l \in setup.legacy, l \notin gone'
               PROVE  /\ dir'[Primary(l)] = l /\ synced'[Primary(l)] = l
                      /\ Primary(l) \in side'
    BY <1>0 DEF KeptLegacy, Primary
  <2>1. dir[Primary(l)] = l /\ synced[Primary(l)] = l /\ Primary(l) \in side
    BY <1>0 DEF Kept, KeptLegacy
  <2>2. synced' = synced
    BY <1>a, <2>1, LegacyFacts
  <2> QED BY <2>1, <2>2, RemoverDir, LegacyFacts
<1> QED BY <1>1, <1>2 DEF Kept

LEMMA KeptDie ==
    ASSUME ManifestTypeOK, Kept, NEW ps, Die(ps), gone' = gone, setup' = setup, side \subseteq side',
           \/ dir' = dir /\ synced' = synced
           \/ /\ ps = Procs /\ synced' = dir'
              /\ \A n \in Names : dir'[n] \in {dir[n], synced[n]}
    PROVE  Kept'
<1> USE Facts
<1>1. KeptSaves'
  <2> SUFFICES ASSUME NEW t \in Saves, save'[t].step \in {"unlink", "sync", "ok"},
                      t \notin gone
               PROVE  /\ save'[t].path \in Names /\ dir'[save'[t].path] = t
                      /\ save'[t].step = "ok" => synced'[save'[t].path] = t
    BY DEF KeptSaves, Linked
  <2>1. save'[t] = save[t]
    BY DieSteps
  <2>2. /\ save[t].path \in Names /\ dir[save[t].path] = t
        /\ save[t].step = "ok" => synced[save[t].path] = t
    BY <2>1 DEF Kept, KeptSaves, Linked
  <2>3. ps = Procs => save[t].step = "ok"
    <3>1. ps = Procs /\ save[t].step \in Holding => save'[t] = [save[t] EXCEPT !.step = "dead"]
      BY DEF Die
    <3>2. [save[t] EXCEPT !.step = "dead"].step = "dead"
      BY SMT DEF ManifestTypeOK, SaveRec
    <3> QED BY <2>1, <3>1, <3>2 DEF Holding
  <2> QED BY <2>1, <2>2, <2>3
<1>2. KeptLegacy'
  <2> SUFFICES ASSUME NEW l \in setup.legacy, l \notin gone
               PROVE  /\ dir'[Primary(l)] = l /\ synced'[Primary(l)] = l
                      /\ Primary(l) \in side'
    BY DEF KeptLegacy, Primary
  <2>1. dir[Primary(l)] = l /\ synced[Primary(l)] = l /\ Primary(l) \in side
    BY DEF Kept, KeptLegacy
  <2> QED BY <2>1, LegacyFacts
<1> QED BY <1>1, <1>2 DEF Kept

(* A power loss that takes the directory, and what it held.                *)
LEMMA KeptUprooted ==
    ASSUME ManifestTypeOK, Die(Procs), setup' = setup,
           gone' = gone \cup Acked \cup setup.legacy
    PROVE  Kept'
<1>1. KeptLegacy'
  BY DEF KeptLegacy
<1>2. ASSUME NEW t \in Saves, save'[t].step \in {"unlink", "sync", "ok"} PROVE t \in gone'
  <2>1. save[t].step \in Holding => save'[t] = [save[t] EXCEPT !.step = "dead"]
    BY Facts DEF Die
  <2>2. [save[t] EXCEPT !.step = "dead"].step = "dead"
    BY SMT DEF ManifestTypeOK, SaveRec
  <2>3. save'[t] = save[t]
    BY <1>2, DieSteps
  <2> QED BY <1>2, <2>1, <2>2, <2>3 DEF Holding, Acked
<1>3. KeptSaves'
  BY <1>2 DEF KeptSaves, Linked
<1> QED BY <1>1, <1>3 DEF Kept

LEMMA KeptNext ==
    ASSUME ManifestTypeOK, Kept, [ManifestNext]_manifestVars
    PROVE  Kept'
<1>1. ASSUME UNCHANGED <<dir, synced, save, gone, setup, side>> PROVE Kept'
  BY <1>1 DEF Kept, KeptSaves, KeptLegacy, Linked, Primary
<1>2. CASE Reader
  BY <1>1, <1>2, ReaderFrame
<1>3. CASE CleanTrash \/ Rot
  BY <1>1, <1>3 DEF CleanTrash, Rot, files
<1>4. ASSUME NEW p \in Procs, Kill(p) PROVE Kept'
  BY <1>4, KeptDie DEF Kill, files
<1>5. CASE PowerLoss
  <2>1. CASE dir' \in Survivors(dir, synced) /\ gone' = gone /\ side \subseteq side'
    <3>1. \A n \in Names : dir'[n] \in {dir[n], synced[n]}
      BY <2>1 DEF Survivors
    <3> QED BY <1>5, <2>1, <3>1, KeptDie DEF PowerLoss
  <2>2. CASE gone' = gone \cup Acked \cup setup.legacy
    BY <1>5, <2>2, KeptUprooted DEF PowerLoss
  <2> QED BY <1>5, <2>1, <2>2 DEF PowerLoss
<1>6. CASE UNCHANGED manifestVars
  BY <1>1, <1>6 DEF manifestVars
<1> QED BY <1>2, <1>3, <1>4, <1>5, <1>6, KeptSave, KeptRemover DEF ManifestNext

-----------------------------------------------------------------------------
(* The trash                                                               *)

(* A removal is at one file at a time.                                     *)
LEMMA FirstUnique ==
    ASSUME NEW ns \in SUBSET Names, NEW m \in Names, NEW n \in Names,
           First(m, ns), First(n, ns)
    PROVE  m = n
<1> SUFFICES ASSUME m # n PROVE FALSE
  OBVIOUS
<1>1. ByName(m, n) /\ ByName(n, m)
  BY DEF First
<1> QED BY SMT, <1>1, Facts DEF ByName

LEMMA TrashedElsewhere ==
    ASSUME InTrash, NEW n \in Names, NEW tr,
           \A k \in Names \ {n} : tr[k] = trash[k],
           NEW ts, \A m \in ts : (m \in trashed /\ m # trash[n]) \/ m = tr[n]
    PROVE  \A m \in ts : \E k \in Names : tr[k] = m
  BY DEF InTrash

LEMMA TrashRemover ==
    ASSUME ManifestTypeOK, TrashInv, Remover
    PROVE  TrashInv'
<1> USE Facts
<1>0. rm.todo \subseteq Names /\ trash \in [Names -> Manifests \cup {None, Partial}]
  BY DEF ManifestTypeOK, RmRec
<1>1. ASSUME NEW n \in Names, RmBody(n) PROVE TrashInv'
  <2>1. CASE Moved(n) /\ trash' = [trash EXCEPT ![n] = dir[n]]
    <3>1. rm'.step = "side"
      BY <2>1 DEF Moved, ManifestTypeOK, RmRec
    <3>2. InTrash'
      BY <2>1, <1>0, TrashedElsewhere DEF Moved, InTrash, TrashInv
    <3> QED BY <3>1, <3>2 DEF TrashInv, CopyInv
  <2>2. CASE /\ dir[n] # None /\ trash' = [trash EXCEPT ![n] = Partial]
             /\ trashed' = trashed \ {trash[n]} /\ rm' = [rm EXCEPT !.step = "copy"]
             /\ dir' = dir
    <3>1. rm'.step = "copy" /\ rm'.todo = rm.todo
      BY <2>2 DEF ManifestTypeOK, RmRec
    <3>2. \A k \in Names : First(k, rm.todo) => k = n
      BY <1>0, <1>1, FirstUnique DEF RmBody
    <3>3. CopyInv'
      BY <2>2, <3>1, <3>2, <1>0 DEF CopyInv, First, ByName
    <3>4. InTrash'
      BY <2>2, <1>0 DEF InTrash, TrashInv
    <3> QED BY <3>3, <3>4 DEF TrashInv
  <2>3. CASE RmNext(n) /\ trash' = trash /\ trashed' = trashed
    <3>1. rm'.step \in {"body", "side"}
      BY <2>3 DEF RmNext, FirstMove, ManifestTypeOK, RmRec
    <3> QED BY <2>3, <3>1 DEF TrashInv, CopyInv, InTrash
  <2> QED BY <1>1, <2>1, <2>2, <2>3 DEF RmBody
<1>2. ASSUME NEW n \in Names, RmCopy(n) PROVE TrashInv'
  <2>1. dir[n] # None /\ trash[n] = Partial
    BY <1>2 DEF RmCopy, TrashInv, CopyInv
  <2>2. \A k \in Names \ {n} : trash'[k] = trash[k]
    BY <1>2, <1>0 DEF RmCopy
  <2>3. InTrash'
    BY SMT, <1>2, <2>1, <2>2 DEF RmCopy, InTrash, TrashInv, ManifestTypeOK
  <2>4. CASE trash' = [trash EXCEPT ![n] = dir[n]] /\ rm' = [rm EXCEPT !.step = "unlink"]
    <3>1. rm'.step = "unlink" /\ rm'.todo = rm.todo
      BY <2>4 DEF ManifestTypeOK, RmRec
    <3>2. \A k \in Names : First(k, rm.todo) => k = n
      BY <1>0, <1>2, FirstUnique DEF RmCopy
    <3>3. dir' = dir
      BY <1>2 DEF RmCopy
    <3>4. CopyInv'
      BY <2>1, <2>4, <3>1, <3>2, <3>3, <1>0 DEF CopyInv, First, ByName
    <3> QED BY <2>3, <3>4 DEF TrashInv
  <2>5. CASE RmNext(n)
    <3>1. rm'.step \in {"body", "side"}
      BY <2>5 DEF RmNext, FirstMove, ManifestTypeOK, RmRec
    <3> QED BY <2>3, <3>1 DEF TrashInv, CopyInv
  <2> QED BY <1>2, <2>4, <2>5 DEF RmCopy
<1>3. ASSUME NEW n \in Names, RmUnlink(n) PROVE TrashInv'
  <2>1. rm'.step = "side"
    BY <1>3 DEF RmUnlink, Moved, ManifestTypeOK, RmRec
  <2>2. trash[n] = dir[n] /\ trash' = trash
    BY <1>3 DEF RmUnlink, TrashInv, CopyInv
  <2>3. InTrash'
    BY <1>3, <2>2 DEF RmUnlink, Moved, InTrash, TrashInv
  <2> QED BY <2>1, <2>3 DEF TrashInv, CopyInv
<1>4. ASSUME rm'.step \notin {"copy", "unlink"}, trash' = trash, trashed' = trashed
      PROVE  TrashInv'
  BY <1>4 DEF TrashInv, CopyInv, InTrash
<1>5. ASSUME NEW n \in Names, RmSide(n) PROVE TrashInv'
  <2>1. rm'.step \in {"body", "side"}
    BY <1>5 DEF RmSide, RmNext, FirstMove, ManifestTypeOK, RmRec
  <2> QED BY <1>4, <1>5, <2>1 DEF RmSide
<1>6. ASSUME NEW op, NEW sec, RmBegin(op, sec) PROVE TrashInv'
  <2>1. rm'.step \in {"match", "body", "side"}
    BY <1>6 DEF RmBegin, FirstMove
  <2> QED BY <1>4, <1>6, <2>1 DEF RmBegin
<1>7. CASE RmMatch
  <2>1. rm'.step \in {"idle", "match", "body", "side"}
    <3>1. NoRemoval.step = "idle"
      BY DEF NoRemoval
    <3>2. \A n : Matched(n).step \in {"body", "side"}
      BY DEF Matched, FirstMove, ManifestTypeOK, RmRec
    <3>3. \A n : Passed(n).step = rm.step
      BY DEF Passed, ManifestTypeOK, RmRec
    <3> QED BY <1>7, <3>1, <3>2, <3>3 DEF RmMatch
  <2> QED BY <1>4, <1>7, <2>1 DEF RmMatch
<1>8. CASE RmEnd
  BY <1>4, <1>8 DEF RmEnd, NoRemoval
<1> QED BY <1>1, <1>2, <1>3, <1>5, <1>6, <1>7, <1>8 DEF Remover

LEMMA TrashNext ==
    ASSUME ManifestTypeOK, TrashInv, [ManifestNext]_manifestVars
    PROVE  TrashInv'
<1> USE Facts
<1>1. ASSUME trash' = trash, trashed' = trashed, rm' = rm,
             \A n \in Names : dir[n] # None => dir'[n] = dir[n]
      PROVE  TrashInv'
  BY <1>1 DEF TrashInv, InTrash, CopyInv, First, ByName
<1>2. ASSUME trash' = trash, trashed' = trashed, rm' = NoRemoval
      PROVE  TrashInv'
  BY <1>2 DEF TrashInv, InTrash, CopyInv, NoRemoval
<1>3. ASSUME NEW s \in Saves, SaveStep(s) PROVE TrashInv'
  <2>1. \A n \in Names : dir[n] # None => dir'[n] = dir[n]
    BY <1>3, SaveDir DEF Links, ManifestTypeOK
  <2> QED BY <1>1, <1>3, <2>1, SaveDir
<1>4. CASE Reader
  BY <1>1, <1>4, ReaderFrame
<1>5. CASE Rot
  BY <1>1, <1>5 DEF Rot, files
<1>6. CASE CleanTrash
  <2>1. PICK n \in Names :
           \/ /\ rm.step \in {"copy", "unlink"} => ~First(n, rm.todo)
              /\ trash' = [trash EXCEPT ![n] = None] /\ trashed' = trashed \ {trash[n]}
           \/ trash' = trash /\ trashed' = trashed
    BY <1>6 DEF CleanTrash
  <2>2. dir' = dir /\ rm' = rm
    BY <1>6 DEF CleanTrash
  <2>3. CASE trash' = trash /\ trashed' = trashed
    BY <1>1, <2>2, <2>3
  <2>4. CASE /\ rm.step \in {"copy", "unlink"} => ~First(n, rm.todo)
             /\ trash' = [trash EXCEPT ![n] = None] /\ trashed' = trashed \ {trash[n]}
    <3>1. \A k \in Names \ {n} : trash'[k] = trash[k]
      BY <2>4 DEF ManifestTypeOK
    <3>2. InTrash'
      BY <3>1, <2>4 DEF InTrash, TrashInv
    <3>3. CopyInv'
      BY <3>1, <2>2, <2>4 DEF CopyInv, TrashInv, First, ByName
    <3> QED BY <3>2, <3>3 DEF TrashInv
  <2> QED BY <2>1, <2>3, <2>4
<1>7. ASSUME NEW p \in Procs, Kill(p) PROVE TrashInv'
  BY <1>1, <1>2, <1>7 DEF Kill, Die, files
<1>8. CASE PowerLoss
  <2>1. rm' = NoRemoval /\ trashed' = {}
    BY <1>8 DEF PowerLoss, Die
  <2> QED BY <2>1 DEF TrashInv, InTrash, CopyInv, NoRemoval
<1>9. CASE UNCHANGED manifestVars
  BY <1>1, <1>9 DEF manifestVars
<1> QED BY <1>3, <1>4, <1>5, <1>6, <1>7, <1>8, <1>9, TrashRemover DEF ManifestNext

-----------------------------------------------------------------------------
(* The reader                                                              *)

(* A manifest to be found is in its place, and loads.                      *)
LEMMA FindableLoads ==
    ASSUME ManifestTypeOK, Kept, NEW m \in setup.legacy \cup Acked, m \notin gone
    PROVE  /\ Home(m) \in Names /\ dir[Home(m)] = m /\ m \in Settled /\ m # None
           /\ m \in Manifests
           /\ m \notin bad => Loadable(Home(m))
<1> USE Facts, LegacyFacts
<1>1. CASE m \in setup.legacy
  BY <1>1 DEF Kept, KeptLegacy, Home, HomeIn, Settled, SettledIn, Loadable
<1>2. CASE m \in Acked
  <2>1. m \in Saves /\ save[m].step = "ok"
    BY <1>2 DEF Acked
  <2>2. save[m].path \in Names /\ dir[save[m].path] = m
    BY <2>1 DEF Kept, KeptSaves, Linked
  <2> QED BY <2>1, <2>2 DEF Home, HomeIn, Settled, SettledIn, Past, Loadable
<1> QED BY <1>1, <1>2

LEMMA LoadStays ==
    ASSUME ManifestTypeOK, LoadInv, Stays, load' = load
    PROVE  LoadInv'
<1> USE Facts
<1> SUFFICES ASSUME load.step # "idle" PROVE LoadInv'
  BY DEF LoadInv
<1>1. setup.legacy \subseteq Legacy
  BY LegacyFacts
<1>2. /\ Settled \subseteq SettledIn(save')
      /\ \A m \in Settled : HomeIn(save', m) = Home(m) /\ mtime'[m] = mtime[m]
  BY DEF Stays, Settled, SettledIn, Home, HomeIn
<1>3. Acked \subseteq Acked'
  BY DEF Stays, Acked
<1>4. load.expect \subseteq Settled
  BY <1>1 DEF LoadInv, Acked, Settled, SettledIn, Past
<1>5. Findable' \subseteq Findable
  BY DEF Findable, Stays
<1>6. \A m \in Findable : m \in Settled /\ (Waits(m) => Waits(m)')
  BY <1>2, <1>4 DEF Findable, Waits, Home
<1>7. load.expect \subseteq setup'.legacy \cup Acked'
  BY <1>3 DEF LoadInv, Stays
<1>8. load.listed \subseteq Settled' /\ load.got \subseteq Settled'
  BY <1>2 DEF LoadInv, Settled
<1>9. load.op = "latest" => \A c \in load.todo, g \in load.listed :
          HomeIn(save', g) = c.name => c.mod = mtime'[g]
  <2>1. load.op = "latest" => \A c \in load.todo, g \in load.listed :
            Home(g) = c.name => c.mod = mtime[g]
    BY DEF LoadInv
  <2>2. \A g \in load.listed : HomeIn(save', g) = Home(g) /\ mtime'[g] = mtime[g]
    BY <1>2 DEF LoadInv
  <2>3. ASSUME load.op = "latest", NEW c \in load.todo, NEW g \in load.listed,
               HomeIn(save', g) = c.name
        PROVE  c.mod = mtime'[g]
    BY ONLY <2>1, <2>2, <2>3
  <2> QED BY ONLY <2>3
<1>10. \A m \in Findable', g \in load.got : NoOlder(g, m) => NoOlder(g, m)'
  BY <1>2, <1>5, <1>6 DEF NoOlder, LoadInv
<1>11. \A m \in Findable' : IF load.op = "list" THEN m \in load.got \/ Waits(m)'
                                               ELSE load.got # {} \/ Waits(m)'
  BY <1>5, <1>6 DEF LoadInv
<1>12. load.op = "latest" => \A m \in Findable', g \in load.got : NoOlder(g, m)'
  BY <1>5, <1>10 DEF LoadInv
<1>13. /\ load.op # "list" /\ load.got # {} => load.todo = {}
       /\ load.step = "done" => load.todo = {}
  BY DEF LoadInv
<1> QED BY <1>7, <1>8, <1>9, <1>11, <1>12, <1>13 DEF LoadInv, Home

LEMMA LoadBeginInv ==
    ASSUME ManifestTypeOK, Placed, Kept, NEW op, NEW sec, LoadBegin(op, sec)
    PROVE  LoadInv'
<1> USE Facts
<1> DEFINE want == {m \in setup.legacy \cup Acked :
                      m \notin gone /\ (op = "byTimestamp" => Second[m] = sec)}
           listed == {dir[n] : n \in {k \in Present : op = "latest"}}
<1>1. load' = [step |-> "try", op |-> op, todo |-> Listing(op, sec), listed |-> listed,
               expect |-> want, got |-> {}]
  BY DEF LoadBegin
<1>2. UNCHANGED <<setup, dir, save, gone, bad, mtime>>
  BY DEF LoadBegin, files
<1>3. Findable' \subseteq want
  BY <1>1 DEF Findable
<1>4. /\ \A n \in Names : dir[n] # None => dir[n] \in Settled /\ Home(dir[n]) = n
      /\ \A n \in Names : dir[n] # None => Second[dir[n]] = n.sec
  BY DEF Placed, PlacedIn, Settled, Home
<1>5. listed \subseteq Settled
  BY <1>4 DEF Present
<1>6. ASSUME NEW m \in want PROVE Waits(m)'
  <2>1. Home(m) \in Names /\ dir[Home(m)] = m /\ m # None /\ m \in Manifests
    BY FindableLoads
  <2>2. op = "byTimestamp" => Home(m).sec = sec
    BY <1>4, <2>1
  <2>3. Home(m) \in {k \in Present : op = "byTimestamp" => k.sec = sec}
    BY <2>1, <2>2 DEF Present
  <2>4. PICK c \in Listing(op, sec) : c.name = Home(m) /\ (op = "latest" => c.mod = mtime[m])
    <3> DEFINE d == [name |-> Home(m), mod |-> IF op = "latest" THEN mtime[dir[Home(m)]] ELSE 0]
    <3>1. d \in Listing(op, sec)
      BY <2>3 DEF Listing
    <3>2. d.name = Home(m) /\ (op = "latest" => d.mod = mtime[m])
      BY <2>1
    <3> QED BY <3>1, <3>2
  <2> QED BY <1>1, <1>2, <2>4 DEF Waits, Home, HomeIn, Primary
<1>7. ASSUME op = "latest", NEW c \in Listing(op, sec), NEW g \in listed, Home(g) = c.name
      PROVE  c.mod = mtime[g]
  <2>1. PICK n \in Present : c = [name |-> n, mod |-> mtime[dir[n]]]
    BY <1>7 DEF Listing
  <2>2. PICK k \in Present : g = dir[k]
    OBVIOUS
  <2>3. Home(g) = k
    BY <1>4, <2>2 DEF Present
  <2> QED BY <1>7, <2>1, <2>2, <2>3
<1>8. Settled' = Settled /\ Acked' = Acked
  BY <1>2 DEF Settled, SettledIn, Acked
<1>9. \A g \in listed : Home(g)' = Home(g)
  BY <1>2 DEF Home, HomeIn, Primary
<1> HIDE DEF want, listed
<1>10. /\ load'.step = "try" /\ load'.op = op /\ load'.todo = Listing(op, sec)
       /\ load'.listed = listed /\ load'.expect = want /\ load'.got = {}
  BY <1>1
<1>11. want \subseteq setup'.legacy \cup Acked'
  BY <1>2, <1>8 DEF want
<1>12. \A m \in Findable' : Waits(m)'
  BY <1>3, <1>6
<1>13. op = "latest" => \A c \in Listing(op, sec), g \in listed :
          Home(g)' = c.name => c.mod = mtime'[g]
  BY <1>2, <1>7, <1>9
<1> QED BY <1>5, <1>8, <1>10, <1>11, <1>12, <1>13 DEF LoadInv

LEMMA LoadTryInv ==
    ASSUME ManifestTypeOK, Placed, Kept, LoadInv, LoadTry
    PROVE  LoadInv'
<1> USE Facts
<1>1. PICK c \in load.todo :
        /\ Foremost(load.op, c, load.todo)
        /\ IF Loadable(c.name) THEN load' = Taken(c) ELSE load' = Skipped(c)
  BY DEF LoadTry
<1>2. load.step = "try"
  BY DEF LoadTry
<1>3. UNCHANGED <<setup, dir, save, gone, bad, mtime>>
  BY DEF LoadTry, files
<1>4. /\ load'.step = "try" /\ load'.op = load.op /\ load'.listed = load.listed
      /\ load'.expect = load.expect
  <2>1. \A d \in {Taken(c), Skipped(c)} :
          d.step = load.step /\ d.op = load.op /\ d.listed = load.listed /\ d.expect = load.expect
    BY DEF ManifestTypeOK, LoadRec, Taken, Skipped
  <2> QED BY <1>1, <1>2, <2>1
<1>5. /\ Loadable(c.name) => /\ load'.todo = {d \in load.todo : d # c /\ load.op = "list"}
                             /\ load'.got = load.got \cup {dir[c.name]}
      /\ ~Loadable(c.name) => load'.todo = load.todo \ {c} /\ load'.got = load.got
  <2>1. /\ Taken(c).todo = {d \in load.todo : d # c /\ load.op = "list"}
        /\ Taken(c).got = load.got \cup {dir[c.name]}
    BY DEF ManifestTypeOK, LoadRec, Taken
  <2>2. Skipped(c).todo = load.todo \ {c} /\ Skipped(c).got = load.got
    BY DEF ManifestTypeOK, LoadRec, Skipped
  <2> QED BY <1>1, <2>1, <2>2
<1>6. Findable' = Findable
  BY <1>3, <1>4 DEF Findable
<1>7. c.name \in Names /\ c.mod \in Nat
  BY DEF ManifestTypeOK, LoadRec, Candidate
<1>8. ASSUME NEW m \in Findable
      PROVE  /\ Home(m) \in Names /\ dir[Home(m)] = m /\ m \in Manifests
             /\ Loadable(Home(m))
  <2>1. m \in setup.legacy \cup Acked /\ m \notin gone /\ m \notin bad
    BY <1>2 DEF LoadInv, Findable
  <2> QED BY <2>1, FindableLoads
<1>9. Loadable(c.name) => /\ dir[c.name] \in Settled /\ Home(dir[c.name]) = c.name
                          /\ Second[dir[c.name]] = c.name.sec
  BY <1>7 DEF Loadable, Placed, PlacedIn, Settled, Home
<1>10. \A m \in Findable : Home(m)' = Home(m)
  BY <1>3 DEF Home, HomeIn, Primary
<1>11. \A m \in Findable : IF load.op = "list" THEN m \in load'.got \/ Waits(m)'
                                              ELSE load'.got # {} \/ Waits(m)'
  <2> SUFFICES ASSUME NEW m \in Findable,
                      ~(IF load.op = "list" THEN m \in load'.got ELSE load'.got # {})
               PROVE  Waits(m)'
    OBVIOUS
  <2>1. PICK d \in load.todo : d.name = Home(m) /\ (load.op = "latest" => d.mod = mtime[m])
    BY <1>2, <1>5 DEF LoadInv, Waits
  <2>2. d \in load'.todo
    <3>1. CASE Loadable(c.name)
      <4>1. load.op = "list" /\ dir[c.name] # m
        BY <3>1, <1>5
      <4>2. c # d
        BY <4>1, <1>8, <2>1
      <4> QED BY <3>1, <4>1, <4>2, <1>5
    <3>2. CASE ~Loadable(c.name)
      BY SMT, <3>2, <1>5, <1>8, <2>1
    <3> QED BY <3>1, <3>2
  <2> QED BY <1>3, <1>4, <1>10, <2>1, <2>2 DEF Waits
<1>12. ASSUME load.op = "latest", NEW m \in Findable, NEW g \in load'.got
       PROVE  NoOlder(g, m)
  <2>1. CASE g \in load.got
    BY <1>2, <1>12, <2>1 DEF LoadInv
  <2>2. CASE g \notin load.got
    <3>1. Loadable(c.name) /\ g = dir[c.name]
      BY <1>5, <2>2
    <3>2. load.got = {}
      BY <1>2, <1>12 DEF LoadInv
    <3>3. PICK d \in load.todo : d.name = Home(m) /\ d.mod = mtime[m]
      BY <1>2, <1>12, <3>2 DEF LoadInv, Waits
    <3>4. Second[g] = c.name.sec /\ Second[m] = d.name.sec
      BY SMT, <1>8, <1>9, <3>1, <3>3 DEF Placed, PlacedIn
    <3>5. CASE c = d
      <4>1. g = m
        BY <1>8, <3>1, <3>3, <3>5
      <4> QED BY SMT, <4>1, <1>8 DEF NoOlder, ManifestTypeOK
    <3>6. CASE c # d
      <4>1. NewestFirst(c, d)
        BY <1>1, <1>12, <3>6 DEF Foremost
      <4>2. g \in load.listed => c.mod = mtime[g]
        BY <1>2, <1>9, <1>12, <3>1 DEF LoadInv
      <4>3. d.mod \in Nat /\ d.name \in Names
        BY DEF ManifestTypeOK, LoadRec, Candidate
      <4> QED BY SMT, <1>7, <3>3, <3>4, <4>1, <4>2, <4>3 DEF NoOlder, NewestFirst
    <3> QED BY <3>5, <3>6
  <2> QED BY <2>1, <2>2
<1>13. Settled' = Settled /\ Acked' = Acked
  BY <1>3 DEF Settled, SettledIn, Acked
<1>14. load'.got \subseteq Settled
  BY <1>2, <1>5, <1>9 DEF LoadInv
<1>15. load'.op # "list" /\ load'.got # {} => load'.todo = {}
  BY <1>2, <1>4, <1>5 DEF LoadInv
<1>16. load.op = "latest" => \A d \in load'.todo, g \in load.listed :
          Home(g)' = d.name => d.mod = mtime'[g]
  BY <1>2, <1>3, <1>5 DEF LoadInv, Home, HomeIn, Primary
<1>17. \A m \in Findable, g \in load'.got : NoOlder(g, m) => NoOlder(g, m)'
  BY <1>3, <1>4 DEF NoOlder
<1>18. load'.expect \subseteq setup'.legacy \cup Acked' /\ load'.listed \subseteq Settled
  BY <1>2, <1>3, <1>4, <1>13 DEF LoadInv
<1> QED BY <1>4, <1>6, <1>11, <1>12, <1>13, <1>14, <1>15, <1>16, <1>17, <1>18 DEF LoadInv

LEMMA LoadNext ==
    ASSUME ManifestTypeOK, Placed, Kept, LoadInv, [ManifestNext]_manifestVars
    PROVE  LoadInv'
<1>1. Stays
  BY NextStays
<1>2. CASE LoadEnd
  <2>1. /\ load.step = "try" /\ load.todo = {}
        /\ load'.step = "done" /\ load'.op = load.op /\ load'.todo = load.todo
        /\ load'.listed = load.listed /\ load'.expect = load.expect /\ load'.got = load.got
    BY <1>2 DEF LoadEnd, ManifestTypeOK, LoadRec
  <2>2. UNCHANGED <<setup, save, gone, bad, mtime>>
    BY <1>2 DEF LoadEnd, files
  <2> QED BY <2>1, <2>2 DEF LoadInv, Findable, Waits, NoOlder, Settled, SettledIn,
                            Home, HomeIn, Primary, Acked
<1>3. CASE LoadReturn \/ PowerLoss
  <2>1. NoLoad.step = "idle"
    BY DEF NoLoad
  <2>2. load' = NoLoad
    BY <1>3 DEF LoadReturn, PowerLoss
  <2> QED BY <2>1, <2>2 DEF LoadInv
<1>4. CASE Reader
  BY <1>2, <1>3, <1>4, LoadBeginInv, LoadTryInv DEF Reader
<1>5. ASSUME NEW s \in Saves, SaveStep(s) PROVE LoadInv'
  BY <1>1, <1>5, SaveDir, LoadStays
<1>6. CASE Remover
  BY <1>1, <1>6, RemoverDir, LoadStays
<1>7. CASE CleanTrash \/ Rot \/ (\E p \in Procs : Kill(p)) \/ UNCHANGED manifestVars
  BY <1>1, <1>7, LoadStays DEF CleanTrash, Rot, Kill, manifestVars
<1> QED BY <1>3, <1>4, <1>5, <1>6, <1>7 DEF ManifestNext

-----------------------------------------------------------------------------
LEMMA InitInv == ManifestInit => IInv
<1> SUFFICES ASSUME ManifestInit PROVE IInv
  OBVIOUS
<1> USE Facts
<1>1. ManifestTypeOK
  BY InitType
<1>2. \A l \in setup.legacy : l \in Legacy /\ l # None /\ Primary(l) \in Names
  BY <1>1, LegacyFacts
<1>3. \A l, m \in Legacy : Primary(l) = Primary(m) => l = m
  BY ManifestAssumption DEF ManifestAssumption, Primary
<1>4. ASSUME NEW n \in Names, dir[n] # None
      PROVE  dir[n] \in setup.legacy /\ Primary(dir[n]) = n
  <2>1. \E m \in setup.legacy : n = Primary(m)
    BY <1>4 DEF ManifestInit
  <2>2. dir[n] = CHOOSE m \in setup.legacy : n = Primary(m)
    BY <2>1 DEF ManifestInit
  <2> QED BY <2>1, <2>2
<1>5. \A l \in setup.legacy : dir[Primary(l)] = l
  <2> TAKE l \in setup.legacy
  <2>1. dir[Primary(l)] = CHOOSE m \in setup.legacy : Primary(l) = Primary(m)
    BY <1>2 DEF ManifestInit
  <2>2. dir[Primary(l)] \in setup.legacy /\ Primary(dir[Primary(l)]) = Primary(l)
    BY <2>1
  <2> QED BY <2>2, <1>2, <1>3
<1>6. Placed
  <2>1. PlacedIn(dir, save)
    <3> SUFFICES ASSUME NEW n \in Names, dir[n] # None
                 PROVE  /\ dir[n] \in SettledIn(save) /\ HomeIn(save, dir[n]) = n
                        /\ Second[dir[n]] = n.sec
      BY DEF PlacedIn
    <3>1. dir[n] \in Legacy /\ Primary(dir[n]) = n
      BY <1>2, <1>4
    <3>2. Primary(dir[n]).sec = Second[dir[n]]
      BY DEF Primary
    <3> QED BY <3>1, <3>2 DEF SettledIn, HomeIn
  <2> QED BY <2>1, NoFilesPlaced DEF Placed, ManifestInit
<1>7. Kept
  <2>1. KeptLegacy
    BY SMT, <1>5 DEF KeptLegacy, ManifestInit
  <2>2. KeptSaves
    BY DEF KeptSaves, Linked, ManifestInit, NoSave
  <2> QED BY <2>1, <2>2 DEF Kept
<1>8. TrashInv
  BY DEF TrashInv, InTrash, CopyInv, ManifestInit, NoRemoval
<1>9. LoadInv
  BY DEF LoadInv, ManifestInit, NoLoad
<1> QED BY <1>1, <1>6, <1>7, <1>8, <1>9 DEF IInv

LEMMA NextInv == IInv /\ [ManifestNext]_manifestVars => IInv'
  BY NextType, PlacedNext, KeptNext, TrashNext, LoadNext DEF IInv

LEMMA Inductive == ManifestSpec => []IInv
  BY InitInv, NextInv, PTL DEF ManifestSpec

(* A manifest whose SaveManifestWithKey returned nil stays under the path  *)
(* it was given, whatever other processes save in the same second and      *)
(* whatever crashes, until a removal takes it, or a power loss together    *)
(* with a directory whose own name MkdirAll left unsynced; one that was    *)
(* trashed is whole in the trash, also where renameWithFallback had to     *)
(* copy it, until it is cleaned or power is lost.                          *)
THEOREM SavedManifestsStay == ManifestSpec => []AckedKept
<1>1. IInv => AckedKept
  BY DEF IInv, AckedKept, Kept, KeptSaves, Linked, Acked, TrashInv, InTrash
<1> QED BY <1>1, Inductive, PTL

(* LoadLatestManifest, LoadManifestByTimestamp and ListManifests fail, or  *)
(* leave out a manifest, only when it is gone or no longer verifies.     *)
THEOREM ReadersFind == ManifestSpec => []LoadFinds
<1>1. IInv => LoadFinds
  BY DEF IInv, LoadInv, LoadFinds, Waits
<1> QED BY <1>1, Inductive, PTL

(* LoadLatestManifest returns no manifest older than one that was saved    *)
(* before it was called, by second and, in one second, by the time the     *)
(* file was written.                                                       *)
THEOREM LatestIsReturned == ManifestSpec => []LoadedIsLatest
<1>1. IInv => LoadedIsLatest
  BY DEF IInv, LoadInv, LoadedIsLatest, NoOlder
<1> QED BY <1>1, Inductive, PTL

=============================================================================
