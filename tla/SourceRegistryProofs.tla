----------------------- MODULE SourceRegistryProofs -----------------------
(***************************************************************************)
(* The registry of a source never runs ahead of its manifests, for any     *)
(* number of overlapping runs and edits and whatever fails; it loses       *)
(* no update where writers take turns.  A listing accounts for every       *)
(* registry that stays.                                                    *)
(***************************************************************************)
EXTENDS SourceRegistry, FiniteSetTheorems, TLAPS

Steps == {"idle", "load", "write", "rename", "sync", "done", "dead"}

Held == [step : Steps, reg : Registries \cup {None}]

TypeOK ==
    /\ setup \in Setup
    /\ reg \in [Sources -> Registries \cup {None}]
    /\ synced \in [Sources -> Registries \cup {None}]
    /\ writer \in [Writers -> Held]
    /\ saved \subseteq Runs

(* The saved runs of a source that have read its registry, or died.        *)
Counted(s) == {x \in saved : SourceOf[x] = s /\ writer[x].step \notin {"idle", "load"}}

(* A registry that counts runs of a set only.                              *)
SoundIn(C, r) == r # None => r.last \in C \cup {0} /\ r.count <= Cardinality(C)

(* A run has saved its manifest before it reads the registry.              *)
SavedInv ==
    \A x \in Runs : /\ writer[x].step \notin {"idle", "done"} => x \in saved
                    /\ x \in saved => writer[x].step # "idle"

(* Every registry there is, seen, synced or held by a writer, is sound.    *)
SoundInv ==
    /\ \A s \in Sources : SoundIn(Counted(s), reg[s]) /\ SoundIn(Counted(s), synced[s])
    /\ \A x \in Writers : SoundIn(Counted(SourceOf[x]), writer[x].reg)

RegistryInv == TypeOK /\ SavedInv /\ SoundInv

(* Deployments in which nothing may get lost.                              *)
Orderly == setup.serial = TRUE /\ setup.deletes = FALSE /\ setup.faults \subseteq {"manifest"}

Active == {"load", "write", "rename", "sync"}

(* The runs and the edits whose registry is in place.                      *)
LandedRuns(s) == {x \in saved : SourceOf[x] = s /\ writer[x].step \in {"sync", "done"}}
LandedEdits(s) == {x \in Edits : SourceOf[x] = s /\ writer[x].step \in {"sync", "done"}}

Served == {SourceOf[x] : x \in Writers}

(* One writer at a time, and none that was cut off.                        *)
TurnsInv ==
    /\ \A x \in Writers : writer[x].step # "dead"
    /\ \A x, y \in Writers :
         SourceOf[x] = SourceOf[y] /\ writer[x].step \in Active /\ writer[y].step \in Active
         => x = y

(* A registry that loads, and one that stands for n runs and some edits.   *)
Good(s, r) == r.id = s /\ r.intact = TRUE /\ r.version <= CurrentVersion
Tells(r, n, edits) == r.count = n /\ r.pins = edits

(* What a writer of the source starts from.                                *)
Current(s, f) == IF f = None THEN Fresh(s) ELSE f

(* The file has what has landed ...                                        *)
FilesInv ==
    \A s \in Sources :
        /\ Tells(Current(s, reg[s]), Cardinality(LandedRuns(s)), LandedEdits(s))
        /\ s \in Served => Good(s, Current(s, reg[s]))

(* ... and what a writer holds tells of its own change besides.            *)
Adds(x, r, n, edits) ==
    /\ r # None /\ Good(SourceOf[x], r)
    /\ IF x \in Runs THEN Tells(r, n + 1, edits) ELSE Tells(r, n, edits \cup {x})

HeldInv ==
    \A x \in Writers : writer[x].step \in {"write", "rename"} =>
        Adds(x, writer[x].reg, Cardinality(LandedRuns(SourceOf[x])),
             LandedEdits(SourceOf[x]))

LosslessInv == Orderly => TurnsInv /\ FilesInv /\ HeldInv

-----------------------------------------------------------------------------
(* Most leaves are first-order: Zenon unless a leaf names another prover.  *)
USE Zenon

(* What soundness needs of a set of runs.                                  *)
LEMMA SoundGrows ==
  ASSUME NEW C, NEW D, IsFiniteSet(D), C \subseteq D,
         NEW r \in Registries \cup {None}, SoundIn(C, r)
  PROVE  SoundIn(D, r)
<1>1. IsFiniteSet(C) /\ Cardinality(C) <= Cardinality(D)
  BY FS_Subset
<1>2. Cardinality(C) \in Nat /\ Cardinality(D) \in Nat
  BY <1>1, FS_CardinalityType
<1> QED
  BY SMT, <1>1, <1>2 DEF SoundIn, Registries

(* One more run, counted once.                                             *)
LEMMA SoundCounts ==
  ASSUME NEW C, NEW x \in Runs, IsFiniteSet(C), x \notin C,
         NEW r \in Registries, SoundIn(C, r)
  PROVE  SoundIn(C \cup {x}, Changed(x, r))
<1>1. Cardinality(C \cup {x}) = Cardinality(C) + 1 /\ Cardinality(C) \in Nat
  BY FS_AddElement, FS_CardinalityType
<1>2. Changed(x, r).last = x /\ Changed(x, r).count = r.count + 1
  BY DEF Changed, Registries
<1>3. r # None
  BY RegistryAssumption
<1>4. r.count \in Nat /\ r.count <= Cardinality(C)
  BY <1>3 DEF SoundIn, Registries
<1> HIDE DEF Changed
<1> QED
  BY SMT, <1>1, <1>2, <1>4 DEF SoundIn

(* updateSourceRegistry makes a registry from a registry.                  *)
LEMMA ChangedType ==
  ASSUME NEW x \in Writers, NEW r \in Registries
  PROVE  Changed(x, r) \in Registries
<1>1. CASE x \in Runs
  <2> DEFINE a == [r EXCEPT !.last = x, !.count = @ + 1]
  <2>1. x \in Nat /\ r.count + 1 \in Nat
    BY SMT, <1>1, RegistryAssumption DEF Registries
  <2>2. a \in Registries
    BY <2>1, Zenon DEF Registries
  <2>3. Changed(x, r) = [a EXCEPT !.version = CurrentVersion]
    BY <1>1 DEF Changed, Registries
  <2> HIDE DEF a
  <2> QED
    BY SMT, <2>2, <2>3 DEF Registries, CurrentVersion
<1>2. CASE x \notin Runs
  BY <1>2 DEF Changed, Registries, CurrentVersion, Writers
<1> QED
  BY <1>1, <1>2

(* An edit adds its pin only.                                              *)
LEMMA EditChanges ==
  ASSUME NEW x \in Writers, x \notin Runs, NEW r \in Registries
  PROVE  /\ Changed(x, r).last = r.last /\ Changed(x, r).count = r.count
         /\ Changed(x, r).pins = r.pins \cup {x}
         /\ Changed(x, r).id = r.id /\ Changed(x, r).intact = r.intact
         /\ Changed(x, r).version = CurrentVersion
BY DEF Changed, Registries

(* A run adds its snapshot only.                                           *)
LEMMA RunChanges ==
  ASSUME NEW x \in Runs, NEW r \in Registries
  PROVE  /\ Changed(x, r).count = r.count + 1 /\ Changed(x, r).pins = r.pins
         /\ Changed(x, r).id = r.id /\ Changed(x, r).intact = r.intact
         /\ Changed(x, r).version = CurrentVersion
BY DEF Changed, Registries

(* The registry of a source that has none.                                 *)
LEMMA FreshIs ==
  ASSUME NEW s \in Sources
  PROVE  /\ Fresh(s) \in Registries /\ Fresh(s).count = 0 /\ Fresh(s).last = 0
         /\ Fresh(s).pins = {} /\ Fresh(s).id = s /\ Fresh(s).intact = TRUE
         /\ Fresh(s).version = CurrentVersion
BY DEF Fresh, Registry, Registries, CurrentVersion

(* ... which counts nothing.                                               *)
LEMMA FreshSound ==
  ASSUME NEW C, IsFiniteSet(C), NEW s \in Sources
  PROVE  SoundIn(C, Fresh(s))
<1>1. Cardinality(C) \in Nat
  BY FS_CardinalityType
<1>2. Fresh(s).last = 0 /\ Fresh(s).count = 0
  BY FreshIs
<1> HIDE DEF Fresh
<1> QED
  BY SMT, <1>1, <1>2 DEF SoundIn

(* There are finitely many runs.                                           *)
LEMMA CountedFinite ==
  ASSUME TypeOK, NEW s \in Sources PROVE IsFiniteSet(Counted(s))
<1>1. Counted(s) \subseteq Runs
  BY DEF TypeOK, Counted
<1> QED
  BY <1>1, RegistryAssumption, FS_Subset

(* A writer moves on.                                                      *)
LEMMA Stepped ==
  ASSUME TypeOK, NEW x \in Writers, NEW st \in Steps, To(x, st)
  PROVE  /\ writer' \in [Writers -> Held] /\ writer'[x].step = st
         /\ \A y \in Writers : /\ writer'[y].reg = writer[y].reg
                               /\ y # x => writer'[y].step = writer[y].step
BY DEF TypeOK, To, Held

-----------------------------------------------------------------------------
(* Steps that make no registry: every one there is was sound before, and   *)
(* the runs it may count only grow in number.                              *)
LEMMA MoveKeeps ==
  ASSUME RegistryInv, setup' = setup,
         writer' \in [Writers -> Held], saved \subseteq saved', saved' \subseteq Runs, SavedInv',
         \A y \in Writers : /\ writer'[y].reg = writer[y].reg
                            /\ writer[y].step \notin {"idle", "load"} =>
                                 writer'[y].step \notin {"idle", "load"},
         reg' \in [Sources -> Registries \cup {None}],
         synced' \in [Sources -> Registries \cup {None}],
         \A s \in Sources : SoundIn(Counted(s), reg'[s]) /\ SoundIn(Counted(s), synced'[s])
  PROVE  RegistryInv'
<1>1. TypeOK'
  BY DEF RegistryInv, TypeOK
<1>2. ASSUME NEW s \in Sources PROVE Counted(s) \subseteq Counted(s)'
  BY DEF Counted, RegistryInv, TypeOK, Writers
<1>3. ASSUME NEW s \in Sources PROVE IsFiniteSet(Counted(s)')
  <2>1. Counted(s)' \subseteq Runs
    BY <1>1 DEF TypeOK, Counted
  <2> QED
    BY <2>1, RegistryAssumption, FS_Subset
<1>4. ASSUME NEW s \in Sources
      PROVE  SoundIn(Counted(s)', reg'[s]) /\ SoundIn(Counted(s)', synced'[s])
  <2>1. reg'[s] \in Registries \cup {None} /\ synced'[s] \in Registries \cup {None}
    OBVIOUS
  <2> QED
    BY <1>2, <1>3, <2>1, SoundGrows
<1>5. ASSUME NEW y \in Writers PROVE SoundIn(Counted(SourceOf[y])', writer'[y].reg)
  <2>1. writer'[y].reg \in Registries \cup {None} /\ SourceOf[y] \in Sources
    BY RegistryAssumption DEF Held
  <2>2. SoundIn(Counted(SourceOf[y]), writer'[y].reg)
    BY DEF RegistryInv, SoundInv
  <2> QED
    BY <1>2, <1>3, <2>1, <2>2, SoundGrows
<1>6. SoundInv'
  BY <1>4, <1>5 DEF SoundInv
<1> QED
  BY <1>1, <1>6 DEF RegistryInv

-----------------------------------------------------------------------------
(* The steps of a writer.  Its manifest is saved before it counts.         *)
LEMMA BackupKeeps ==
  ASSUME RegistryInv, NEW x \in Writers, Backup(x) PROVE RegistryInv'
<1>1. /\ UNCHANGED <<setup, reg, synced>> /\ x \in Runs /\ writer[x].step = "idle"
      /\ \/ To(x, "load") /\ saved' = saved \cup {x}
         \/ To(x, "done") /\ saved' = saved
  BY DEF Backup
<1>2. PICK st \in {"load", "done"} :
        /\ To(x, st)
        /\ st = "load" => saved' = saved \cup {x}
        /\ st = "done" => saved' = saved
  BY <1>1
<1>3. /\ writer' \in [Writers -> Held] /\ writer'[x].step = st
      /\ \A y \in Writers : /\ writer'[y].reg = writer[y].reg
                            /\ y # x => writer'[y].step = writer[y].step
  BY <1>2, Stepped DEF RegistryInv, Steps
<1>4. saved \subseteq saved' /\ saved' \subseteq Runs
  BY <1>1, <1>2 DEF RegistryInv, TypeOK
<1>5. SavedInv'
  BY SMT, <1>1, <1>2, <1>3 DEF SavedInv, RegistryInv, Writers
<1>6. \A y \in Writers : writer[y].step \notin {"idle", "load"} =>
                           writer'[y].step \notin {"idle", "load"}
  BY <1>1, <1>3
<1> QED
  BY <1>1, <1>3, <1>4, <1>5, <1>6, MoveKeeps DEF RegistryInv, TypeOK, SoundInv

(* A step of a writer that leaves the files alone ...                      *)
LEMMA WriterMoves ==
  ASSUME RegistryInv, NEW x \in Writers, NEW st \in Steps \ {"idle"}, To(x, st),
         setup' = setup, saved' = saved,
         writer[x].step = "idle" => x \notin Runs,
         writer[x].step = "done" => st = "done",
         writer[x].step \in {"idle", "load"} \/ st # "load",
         reg' \in [Sources -> Registries \cup {None}],
         synced' \in [Sources -> Registries \cup {None}],
         \A s \in Sources : SoundIn(Counted(s), reg'[s]) /\ SoundIn(Counted(s), synced'[s])
  PROVE  RegistryInv'
<1>1. /\ writer' \in [Writers -> Held] /\ writer'[x].step = st
      /\ \A y \in Writers : /\ writer'[y].reg = writer[y].reg
                            /\ y # x => writer'[y].step = writer[y].step
  BY Stepped DEF RegistryInv
<1>2. SavedInv'
  BY <1>1 DEF SavedInv, RegistryInv, Writers
<1>3. \A y \in Writers : writer[y].step \notin {"idle", "load"} =>
                           writer'[y].step \notin {"idle", "load"}
  BY <1>1
<1> QED
  BY <1>1, <1>2, <1>3, MoveKeeps DEF RegistryInv, TypeOK

(* ... or takes a registry it holds, or one that is there, for another.    *)
LEMMA FilesSound ==
  ASSUME RegistryInv
  PROVE  /\ reg \in [Sources -> Registries \cup {None}]
         /\ synced \in [Sources -> Registries \cup {None}]
         /\ \A s \in Sources : SoundIn(Counted(s), reg[s]) /\ SoundIn(Counted(s), synced[s])
BY DEF RegistryInv, TypeOK, SoundInv

(* The application begins with an edit.                                    *)
LEMMA StartEditKeeps ==
  ASSUME RegistryInv, NEW x \in Writers, StartEdit(x) PROVE RegistryInv'
<1>1. /\ UNCHANGED <<setup, reg, synced, saved>> /\ To(x, "load")
      /\ writer[x].step = "idle" /\ x \notin Runs
  BY RegistryAssumption DEF StartEdit
<1> QED
  BY <1>1, FilesSound, WriterMoves DEF Steps

(* The staging file is written.                                            *)
LEMMA WriteKeeps ==
  ASSUME RegistryInv, NEW x \in Writers, Write(x) PROVE RegistryInv'
<1>1. UNCHANGED <<setup, reg, synced, saved>> /\ writer[x].step = "write"
  BY DEF Write
<1>2. To(x, "rename") \/ To(x, "done")
  BY DEF Write
<1> QED
  BY <1>1, <1>2, FilesSound, WriterMoves DEF Steps

(* What is renamed into place was sound in the hands of its writer.        *)
LEMMA RenameKeeps ==
  ASSUME RegistryInv, NEW x \in Writers, Rename(x) PROVE RegistryInv'
<1>1. UNCHANGED <<setup, synced, saved>> /\ writer[x].step = "rename"
  BY DEF Rename
<1>2. CASE To(x, "done") /\ UNCHANGED reg
  BY <1>1, <1>2, FilesSound, WriterMoves DEF Steps
<1>3. CASE To(x, "sync") /\ reg' = [reg EXCEPT ![SourceOf[x]] = writer[x].reg]
  <2>1. writer[x].reg \in Registries \cup {None} /\ SourceOf[x] \in Sources
    BY RegistryAssumption DEF RegistryInv, TypeOK, Held
  <2>2. SoundIn(Counted(SourceOf[x]), writer[x].reg)
    BY DEF RegistryInv, SoundInv
  <2>3. reg' \in [Sources -> Registries \cup {None}]
    BY <1>3, <2>1, FilesSound
  <2>4. \A s \in Sources : SoundIn(Counted(s), reg'[s]) /\ SoundIn(Counted(s), synced'[s])
    BY <1>1, <1>3, <2>1, <2>2, FilesSound
  <2> QED
    BY <1>1, <1>3, <2>3, <2>4, FilesSound, WriterMoves DEF Steps
<1> QED
  BY <1>2, <1>3 DEF Rename

(* What becomes durable was there.                                         *)
LEMMA SyncKeeps ==
  ASSUME RegistryInv, NEW x \in Writers, Sync(x) PROVE RegistryInv'
<1>1. UNCHANGED <<setup, reg, saved>> /\ writer[x].step = "sync" /\ To(x, "done")
  BY DEF Sync
<1>2. PICK s \in Sources : s = SourceOf[x]
  BY RegistryAssumption
<1>3. synced' \in {synced, [synced EXCEPT ![s] = reg[s]]}
  BY <1>2 DEF Sync
<1>4. synced' \in [Sources -> Registries \cup {None}]
  BY <1>3, FilesSound
<1>5. \A t \in Sources : SoundIn(Counted(t), reg'[t]) /\ SoundIn(Counted(t), synced'[t])
  BY <1>1, <1>3, FilesSound
<1> QED
  BY <1>1, <1>4, <1>5, FilesSound, WriterMoves DEF Steps

(* What a run that has read a registry holds counts that run once more;    *)
(* an edit counts what it has read.                                        *)
LEMMA LoadKeeps ==
  ASSUME RegistryInv, NEW x \in Writers, Load(x) PROVE RegistryInv'
<1>1. UNCHANGED <<setup, reg, synced, saved>> /\ writer[x].step = "load"
  BY DEF Load
<1>2. PICK s \in Sources : s = SourceOf[x]
  BY RegistryAssumption
<1>3. CASE To(x, "done")
  BY <1>1, <1>3, FilesSound, WriterMoves DEF Steps
<1>4. ASSUME NEW r \in Registries, SoundIn(Counted(s), r),
             writer' = [writer EXCEPT ![x] = [step |-> "write", reg |-> Changed(x, r)]]
      PROVE  RegistryInv'
  <2>1. Changed(x, r) \in Registries
    BY ChangedType
  <2> DEFINE c == Changed(x, r)
  <2>2. writer \in [Writers -> Held]
    BY DEF RegistryInv, TypeOK
  <2> HIDE DEF c
  <2>3. /\ writer' \in [Writers -> Held] /\ writer'[x].step = "write" /\ writer'[x].reg = c
        /\ \A y \in Writers \ {x} : writer'[y] = writer[y]
    BY <1>4, <2>1, <2>2 DEF Held, Steps, c
  <2>4. TypeOK'
    BY <1>1, <2>3 DEF RegistryInv, TypeOK
  <2>5. SavedInv'
    BY <1>1, <2>3 DEF RegistryInv, SavedInv, Writers
  <2>6. \A t \in Sources : Counted(t) \subseteq Counted(t)'
    BY <1>1, <2>3 DEF Counted, RegistryInv, TypeOK, Writers
  <2>7. \A t \in Sources : IsFiniteSet(Counted(t)) /\ IsFiniteSet(Counted(t)')
    <3>1. \A t \in Sources : Counted(t) \subseteq Runs /\ Counted(t)' \subseteq Runs
      BY <2>4 DEF RegistryInv, TypeOK, Counted
    <3> QED
      BY <3>1, RegistryAssumption, FS_Subset
  <2>8. ASSUME NEW t \in Sources
        PROVE  SoundIn(Counted(t)', reg'[t]) /\ SoundIn(Counted(t)', synced'[t])
    <3>1. reg[t] \in Registries \cup {None} /\ synced[t] \in Registries \cup {None}
      BY FilesSound
    <3>2. SoundIn(Counted(t)', reg[t]) /\ SoundIn(Counted(t)', synced[t])
      BY <2>6, <2>7, <3>1, FilesSound, SoundGrows
    <3> QED
      BY <1>1, <3>2
  <2>9. ASSUME NEW y \in Writers \ {x} PROVE SoundIn(Counted(SourceOf[y])', writer'[y].reg)
    <3>1. writer[y].reg \in Registries \cup {None} /\ SourceOf[y] \in Sources
      BY <2>2, RegistryAssumption DEF Held
    <3>2. SoundIn(Counted(SourceOf[y]), writer[y].reg)
      BY DEF RegistryInv, SoundInv
    <3>3. SoundIn(Counted(SourceOf[y])', writer[y].reg)
      BY <2>6, <2>7, <3>1, <3>2, SoundGrows
    <3> QED
      BY <2>3, <3>3
  <2>10. SoundIn(Counted(s)', c)
    <3>1. CASE x \in Runs
      <4>1. x \in saved
        BY <1>1, <3>1 DEF RegistryInv, SavedInv
      <4>2. x \notin Counted(s) /\ Counted(s)' = Counted(s) \cup {x}
        BY <1>1, <1>2, <2>3, <4>1 DEF Counted, RegistryInv, TypeOK, Writers
      <4>3. SoundIn(Counted(s) \cup {x}, c)
        BY <1>4, <2>7, <3>1, <4>2, SoundCounts DEF c
      <4> QED
        BY <4>2, <4>3
    <3>2. CASE x \notin Runs
      <4>1. c.last = r.last /\ c.count = r.count
        BY <3>2, EditChanges DEF c
      <4>2. r # None
        BY RegistryAssumption
      <4>3. SoundIn(Counted(s), c)
        BY <1>4, <4>1, <4>2 DEF SoundIn
      <4> QED
        BY <2>1, <2>6, <2>7, <4>3, SoundGrows DEF c
    <3> QED
      BY <3>1, <3>2
  <2>11. SoundInv'
    BY <1>2, <2>3, <2>8, <2>9, <2>10 DEF SoundInv
  <2> QED
    BY <2>4, <2>5, <2>11 DEF RegistryInv
<1>5. CASE writer' = [writer EXCEPT ![x] = [step |-> "write", reg |-> Changed(x, Fresh(s))]]
  <2>1. PICK r \in Registries : r = Fresh(s)
    BY FreshIs
  <2>2. SoundIn(Counted(s), r)
    BY <2>1, CountedFinite, FreshSound DEF RegistryInv
  <2> QED
    BY <1>4, <1>5, <2>1, <2>2
<1>6. CASE Loads(s) /\ writer' = [writer EXCEPT ![x] = [step |-> "write", reg |-> Changed(x, reg[s])]]
  <2>1. reg[s] \in Registries
    BY <1>6, FilesSound DEF Loads
  <2>2. PICK r \in Registries : r = reg[s]
    BY <2>1
  <2>3. SoundIn(Counted(s), r)
    BY <2>2, FilesSound
  <2> QED
    BY <1>4, <1>6, <2>2, <2>3
<1> QED
  BY <1>2, <1>3, <1>5, <1>6 DEF Load

-----------------------------------------------------------------------------
(* A file that is removed, damaged or reverted counts no more than before. *)
LEMMA FilesKeep ==
  ASSUME RegistryInv, UNCHANGED <<setup, writer, saved>>,
         reg' \in [Sources -> Registries \cup {None}],
         synced' \in [Sources -> Registries \cup {None}],
         \A s \in Sources : SoundIn(Counted(s), reg'[s]) /\ SoundIn(Counted(s), synced'[s])
  PROVE  RegistryInv'
<1>1. TypeOK' /\ SavedInv'
  BY DEF RegistryInv, TypeOK, SavedInv
<1>2. \A s \in Sources : Counted(s)' = Counted(s)
  BY DEF Counted
<1>3. \A x \in Writers : SourceOf[x] \in Sources
  BY RegistryAssumption
<1>4. SoundInv'
  BY <1>2, <1>3 DEF RegistryInv, SoundInv
<1> QED
  BY <1>1, <1>4 DEF RegistryInv

(* DeleteSourceRegistry.                                                   *)
LEMMA DeleteKeeps ==
  ASSUME RegistryInv, NEW s \in Sources, Delete(s) PROVE RegistryInv'
<1>1. UNCHANGED <<setup, synced, writer, saved>> /\ reg' = [reg EXCEPT ![s] = None]
  BY DEF Delete
<1>2. reg' \in [Sources -> Registries \cup {None}]
  BY <1>1, FilesSound
<1>3. \A t \in Sources : SoundIn(Counted(t), reg'[t])
  BY <1>1, FilesSound DEF SoundIn
<1> QED
  BY <1>1, <1>2, <1>3, FilesSound, FilesKeep

(* Damage shows in the checksum only.                                      *)
LEMMA RotKeeps ==
  ASSUME RegistryInv, NEW s \in Sources, Rot(s) PROVE RegistryInv'
<1>1. UNCHANGED <<setup, synced, writer, saved>> /\ reg[s] # None
  BY DEF Rot
<1>2. PICK r \in Registries : r = reg[s]
  BY <1>1, FilesSound
<1> DEFINE d == [r EXCEPT !.intact = FALSE]
<1>3. d \in Registries /\ d.last = r.last /\ d.count = r.count
  BY DEF Registries
<1>4. reg' = [reg EXCEPT ![s] = d]
  BY <1>2 DEF Rot
<1> HIDE DEF d
<1>5. reg' \in [Sources -> Registries \cup {None}]
  BY <1>3, <1>4, FilesSound
<1>6. SoundIn(Counted(s), d)
  BY <1>1, <1>2, <1>3, FilesSound DEF SoundIn
<1>7. \A t \in Sources : SoundIn(Counted(t), reg'[t])
  BY <1>4, <1>6, FilesSound
<1> QED
  BY <1>1, <1>5, <1>7, FilesSound, FilesKeep

(* A writer that is cut off keeps its place among those that have counted. *)
LEMMA Died ==
  ASSUME RegistryInv, NEW xs, Die(xs), saved' = saved
  PROVE  /\ writer' \in [Writers -> Held] /\ SavedInv'
         /\ \A y \in Writers : /\ writer'[y].reg = writer[y].reg
                               /\ writer[y].step \notin {"idle", "load"} =>
                                    writer'[y].step \notin {"idle", "load"}
<1>1. writer \in [Writers -> Held]
  BY DEF RegistryInv, TypeOK
<1>2. \A y \in Writers : /\ writer'[y] \in Held /\ writer'[y].reg = writer[y].reg
                         /\ \/ writer'[y].step = writer[y].step
                            \/ writer'[y].step = "dead" /\ writer[y].step \notin {"idle", "done"}
  BY <1>1 DEF Die, Held, Steps
<1>3. writer' \in [Writers -> Held]
  BY <1>2 DEF Die
<1>4. SavedInv'
  BY <1>2 DEF RegistryInv, SavedInv, Writers
<1> QED
  BY <1>2, <1>3, <1>4

(* One process dies ...                                                    *)
LEMMA KillKeeps ==
  ASSUME RegistryInv, NEW x \in Writers, Kill(x) PROVE RegistryInv'
<1>1. UNCHANGED <<setup, reg, synced, saved>> /\ Die({x}) /\ saved \subseteq Runs
  BY DEF Kill, RegistryInv, TypeOK
<1>2. /\ writer' \in [Writers -> Held] /\ SavedInv'
      /\ \A y \in Writers : /\ writer'[y].reg = writer[y].reg
                            /\ writer[y].step \notin {"idle", "load"} =>
                                 writer'[y].step \notin {"idle", "load"}
  BY <1>1, Died
<1> QED
  BY <1>1, <1>2, FilesSound, MoveKeeps

(* ... or all of them, and each file is as it was seen or synced.          *)
LEMMA PowerLossKeeps == ASSUME RegistryInv, PowerLoss PROVE RegistryInv'
<1>1. UNCHANGED <<setup, saved>> /\ Die(Writers) /\ synced' = reg' /\ saved \subseteq Runs
  BY DEF PowerLoss, RegistryInv, TypeOK
<1>2. PICK back \in SUBSET Sources :
        reg' = [s \in Sources |-> IF s \in back THEN synced[s] ELSE reg[s]]
  BY DEF PowerLoss
<1>3. reg' \in [Sources -> Registries \cup {None}]
  BY <1>2, FilesSound
<1>4. \A s \in Sources : SoundIn(Counted(s), reg'[s])
  BY <1>2, FilesSound
<1>5. /\ writer' \in [Writers -> Held] /\ SavedInv'
      /\ \A y \in Writers : /\ writer'[y].reg = writer[y].reg
                            /\ writer[y].step \notin {"idle", "load"} =>
                                 writer'[y].step \notin {"idle", "load"}
  BY <1>1, Died
<1> QED
  BY <1>1, <1>3, <1>4, <1>5, MoveKeeps

(* Listings read.                                                          *)
LEMMA ListKeeps ==
  ASSUME RegistryInv, UNCHANGED <<setup, reg, synced, writer, saved>> PROVE RegistryInv'
BY FilesSound, FilesKeep

(* The files at the start count nothing.                                   *)
LEMMA RegistryInitial == ASSUME Init PROVE RegistryInv
<1>1. /\ reg \in InitFiles /\ synced = reg /\ saved = {} /\ setup \in Setups
      /\ writer = [x \in Writers |-> NoWriter]
  BY DEF Init
<1>2. \A s \in Sources : \/ reg[s] = None
                         \/ reg[s] \in Registries /\ reg[s].count = 0 /\ reg[s].last = 0
  BY <1>1, RegistryAssumption
<1>3. reg \in [Sources -> Registries \cup {None}]
  BY <1>1, RegistryAssumption
<1>4. NoWriter \in Held /\ NoWriter.step = "idle" /\ NoWriter.reg = None
  BY DEF NoWriter, Held, Steps
<1>5. TypeOK
  BY <1>1, <1>3, <1>4, RegistryAssumption DEF TypeOK
<1>6. SavedInv
  BY <1>1, <1>4 DEF SavedInv, Writers
<1>7. ASSUME NEW s \in Sources PROVE SoundIn(Counted(s), reg[s])
  <2>1. Cardinality(Counted(s)) \in Nat
    BY <1>5, CountedFinite, FS_CardinalityType
  <2> QED
    BY SMT, <1>2, <2>1 DEF SoundIn
<1>8. SoundInv
  BY <1>1, <1>4, <1>7 DEF SoundInv, SoundIn
<1> QED
  BY <1>5, <1>6, <1>8 DEF RegistryInv

(* Every step keeps the invariant.                                         *)
LEMMA RegistryStep == ASSUME RegistryInv, [Next]_vars PROVE RegistryInv'
<1>1. ASSUME NEW x \in Writers, WriterStep(x) \/ Kill(x) PROVE RegistryInv'
  BY <1>1, BackupKeeps, StartEditKeeps, LoadKeeps, WriteKeeps, RenameKeeps, SyncKeeps,
     KillKeeps DEF WriterStep
<1>2. ASSUME NEW s \in Sources, Delete(s) \/ Rot(s) PROVE RegistryInv'
  BY <1>2, DeleteKeeps, RotKeeps
<1>3. CASE ListBegin \/ (\E s \in Sources : ListNext(s)) \/ ListFail \/ ListEnd \/ UNCHANGED vars
  <2>1. UNCHANGED <<setup, reg, synced, writer, saved>>
    BY <1>3 DEF ListBegin, ListNext, ListFail, ListEnd, vars
  <2> QED
    BY <2>1, ListKeeps
<1>4. CASE PowerLoss
  BY <1>4, PowerLossKeeps
<1> QED
  BY <1>1, <1>2, <1>3, <1>4 DEF Next

(* Every registry there is counts saved runs only, each of them once.      *)
THEOREM RegistryInvariant == Spec => []RegistryInv
<1>1. Init => RegistryInv
  BY RegistryInitial
<1>2. RegistryInv /\ [Next]_vars => RegistryInv'
  BY RegistryStep
<1> QED
  BY <1>1, <1>2, PTL DEF Spec

(* The registry never runs ahead: updateSourceRegistry comes after the     *)
(* save, and each run adds one snapshot, its own, to what others counted.  *)
THEOREM NeverAhead == Spec => []RegistryNotAhead
<1>1. ASSUME RegistryInv PROVE RegistryNotAhead
  <2> SUFFICES ASSUME NEW s \in Sources, reg[s] # None
               PROVE  /\ reg[s].last \in RunsOf(s) \cup {0}
                      /\ reg[s].count <= Cardinality(RunsOf(s))
    BY DEF RegistryNotAhead
  <2>1. Counted(s) \subseteq RunsOf(s) /\ RunsOf(s) \subseteq Runs
    BY <1>1 DEF Counted, RunsOf, RegistryInv, TypeOK
  <2>2. IsFiniteSet(RunsOf(s))
    BY <2>1, RegistryAssumption, FS_Subset
  <2>3. PICK r \in Registries \cup {None} : r = reg[s]
    BY <1>1, FilesSound
  <2>4. SoundIn(Counted(s), r)
    BY <1>1, <2>3, FilesSound
  <2>5. SoundIn(RunsOf(s), r)
    BY <2>1, <2>2, <2>4, SoundGrows
  <2> QED
    BY <2>3, <2>5 DEF SoundIn
<1> QED
  BY <1>1, RegistryInvariant, PTL

-----------------------------------------------------------------------------
(* Writers that take turns                                                 *)

Lossless == TurnsInv /\ FilesInv /\ HeldInv

(* A registry that stays, over the same landed writers.                    *)
LEMMA FilesStay ==
  ASSUME FilesInv, reg' = reg,
         \A s \in Sources : /\ LandedRuns(s)' = LandedRuns(s)
                            /\ LandedEdits(s)' = LandedEdits(s)
  PROVE  FilesInv'
BY DEF FilesInv, Served

(* A writer begins when no other of its source is at work.                 *)
LEMMA StartLossless ==
  ASSUME RegistryInv, Lossless, Orderly, NEW x \in Writers, Backup(x) \/ StartEdit(x)
  PROVE  Lossless'
<1>1. UNCHANGED <<setup, reg>> /\ writer[x].step = "idle" /\ MayStart(x)
  BY DEF Backup, StartEdit
<1>2. \/ To(x, "load") /\ saved' = saved \cup {x} /\ x \in Runs
      \/ To(x, "done") /\ saved' = saved /\ x \in Runs
      \/ To(x, "load") /\ saved' = saved /\ x \in Edits
  BY DEF Backup, StartEdit
<1>3. PICK st \in {"load", "done"} : To(x, st)
  BY <1>2
<1>4. /\ writer' \in [Writers -> Held] /\ writer'[x].step = st
      /\ \A y \in Writers : /\ writer'[y].reg = writer[y].reg
                            /\ y # x => writer'[y].step = writer[y].step
  BY <1>3, Stepped DEF RegistryInv, Steps
<1>5. st = "done" => x \in Runs /\ x \notin saved /\ saved' = saved
  <2>1. To(x, "load") => writer'[x].step = "load"
    BY Stepped DEF RegistryInv, Steps
  <2> QED
    BY <1>1, <1>2, <1>4, <2>1 DEF RegistryInv, SavedInv
<1>6. saved' \subseteq saved \cup {x} /\ saved \subseteq saved'
  BY <1>2
<1>7. \A s \in Sources : LandedRuns(s)' = LandedRuns(s)
  BY <1>1, <1>4, <1>5, <1>6 DEF LandedRuns, RegistryInv, TypeOK, Writers
<1>8. \A s \in Sources : LandedEdits(s)' = LandedEdits(s)
  BY <1>1, <1>4, <1>5, RegistryAssumption DEF LandedEdits, Writers
<1>9. FilesInv'
  BY <1>1, <1>7, <1>8, FilesStay DEF Lossless
<1>10. TurnsInv'
  <2>1. \A y \in Writers : SourceOf[y] = SourceOf[x] => writer[y].step \notin Active
    BY <1>1 DEF MayStart, Orderly, Active
  <2> QED
    BY <1>4, <2>1 DEF Lossless, TurnsInv
<1>11. HeldInv'
  <2>1. \A y \in Writers : writer'[y].step \in {"write", "rename"} => y # x
    BY <1>4
  <2>2. \A y \in Writers : SourceOf[y] \in Sources
    BY RegistryAssumption
  <2> QED
    BY <1>4, <1>7, <1>8, <2>1, <2>2 DEF Lossless, HeldInv
<1> QED
  BY <1>9, <1>10, <1>11 DEF Lossless

(* A writer loads what is there, since nothing else has come between and   *)
(* every registry of a source that is written loads.                       *)
LEMMA LoadLossless ==
  ASSUME RegistryInv, Lossless, Orderly, NEW x \in Writers, Load(x)
  PROVE  Lossless'
<1>1. UNCHANGED <<setup, reg, saved>> /\ writer[x].step = "load" /\ "read" \notin setup.faults
  BY DEF Load, Orderly
<1>2. PICK s \in Sources : s = SourceOf[x] /\ s \in Served
  BY SMT, RegistryAssumption DEF Served
<1>3. PICK r : r = Current(s, reg[s])
  OBVIOUS
<1>4. r \in Registries /\ Tells(r, Cardinality(LandedRuns(s)), LandedEdits(s)) /\ Good(s, r)
  <2>1. r \in Registries
    BY <1>3, FreshIs, FilesSound DEF Current
  <2> QED
    BY <1>2, <1>3, <2>1 DEF Lossless, FilesInv
<1>5. writer' = [writer EXCEPT ![x] = [step |-> "write", reg |-> Changed(x, r)]]
  <2>1. reg[s] # None => Loads(s)
    BY <1>3, <1>4 DEF Loads, Current, Good
  <2>2. reg[s] = None => ~Loads(s)
    BY DEF Loads
  <2> QED
    BY <1>1, <1>2, <1>3, <2>1, <2>2 DEF Load, Current
<1>6. PICK c \in Registries : c = Changed(x, r)
  BY <1>4, ChangedType
<1>7. /\ writer'[x].step = "write" /\ writer'[x].reg = c
      /\ \A y \in Writers \ {x} : writer'[y] = writer[y]
  <2>1. writer \in [Writers -> Held]
    BY DEF RegistryInv, TypeOK
  <2> QED
    BY <1>5, <1>6, <2>1
<1>8. \A t \in Sources : LandedRuns(t)' = LandedRuns(t) /\ LandedEdits(t)' = LandedEdits(t)
  BY <1>1, <1>7 DEF LandedRuns, LandedEdits, RegistryInv, TypeOK, Writers
<1>9. FilesInv'
  BY <1>1, <1>8, FilesStay DEF Lossless
<1>10. TurnsInv'
  BY SMT, <1>1, <1>7 DEF Lossless, TurnsInv, Active
<1>11. Adds(x, c, Cardinality(LandedRuns(s)), LandedEdits(s))
  <2>1. c # None
    BY RegistryAssumption
  <2>2. CASE x \in Runs
    <3>1. /\ c.count = r.count + 1 /\ c.pins = r.pins /\ c.id = r.id /\ c.intact = r.intact
          /\ c.version = CurrentVersion
      BY <1>4, <1>6, <2>2, RunChanges
    <3> QED
      BY SMT, <1>2, <1>4, <2>1, <2>2, <3>1 DEF Adds, Good, Tells, CurrentVersion
  <2>3. CASE x \notin Runs
    <3>1. /\ c.count = r.count /\ c.pins = r.pins \cup {x} /\ c.id = r.id
          /\ c.intact = r.intact /\ c.version = CurrentVersion
      BY <1>4, <1>6, <2>3, EditChanges
    <3> QED
      BY SMT, <1>2, <1>4, <2>1, <2>3, <3>1 DEF Adds, Good, Tells, CurrentVersion
  <2> QED
    BY <2>2, <2>3
<1>12. HeldInv'
  <2>1. \A y \in Writers : SourceOf[y] \in Sources
    BY RegistryAssumption
  <2> QED
    BY <1>2, <1>7, <1>8, <1>11, <2>1 DEF Lossless, HeldInv
<1> QED
  BY <1>9, <1>10, <1>12 DEF Lossless

(* The staging write and the directory sync change no registry.            *)
LEMMA WriteLossless ==
  ASSUME RegistryInv, Lossless, Orderly, NEW x \in Writers, Write(x) \/ Sync(x)
  PROVE  Lossless'
<1>1. UNCHANGED <<setup, reg, saved>>
  BY DEF Write, Sync
<1>2. PICK st \in {"rename", "done"} :
        /\ To(x, st)
        /\ st = "rename" => writer[x].step = "write"
        /\ st = "done" => writer[x].step = "sync"
  BY DEF Write, Sync, Orderly
<1>3. /\ writer'[x].step = st
      /\ \A y \in Writers : /\ writer'[y].reg = writer[y].reg
                            /\ y # x => writer'[y].step = writer[y].step
  BY <1>2, Stepped DEF RegistryInv, Steps
<1>4. \A t \in Sources : LandedRuns(t)' = LandedRuns(t) /\ LandedEdits(t)' = LandedEdits(t)
  BY <1>1, <1>2, <1>3 DEF LandedRuns, LandedEdits, RegistryInv, TypeOK, Writers
<1>5. FilesInv'
  BY <1>1, <1>4, FilesStay DEF Lossless
<1>6. TurnsInv'
  BY SMT, <1>2, <1>3 DEF Lossless, TurnsInv, Active
<1>7. HeldInv'
  <2>1. \A y \in Writers : SourceOf[y] \in Sources
    BY RegistryAssumption
  <2>2. \A y \in Writers : writer'[y].step \in {"write", "rename"} =>
                             writer[y].step \in {"write", "rename"}
    BY <1>2, <1>3
  <2> QED
    BY <1>3, <1>4, <2>1, <2>2 DEF Lossless, HeldInv
<1> QED
  BY <1>5, <1>6, <1>7 DEF Lossless

(* The rename puts in place what was there and the writer's own change.    *)
LEMMA RenameLossless ==
  ASSUME RegistryInv, Lossless, Orderly, NEW x \in Writers, Rename(x)
  PROVE  Lossless'
<1>1. /\ UNCHANGED <<setup, saved>> /\ writer[x].step = "rename"
      /\ To(x, "sync") /\ reg' = [reg EXCEPT ![SourceOf[x]] = writer[x].reg]
  BY DEF Rename, Orderly
<1>2. /\ writer'[x].step = "sync"
      /\ \A y \in Writers : /\ writer'[y].reg = writer[y].reg
                            /\ y # x => writer'[y].step = writer[y].step
  BY <1>1, Stepped DEF RegistryInv, Steps
<1>3. PICK s \in Sources : s = SourceOf[x]
  BY RegistryAssumption
<1>4. PICK c : c = writer[x].reg
  OBVIOUS
<1>5. Adds(x, c, Cardinality(LandedRuns(s)), LandedEdits(s))
  BY <1>1, <1>3, <1>4 DEF Lossless, HeldInv
<1>6. /\ reg'[s] = c /\ \A t \in Sources \ {s} : reg'[t] = reg[t]
  BY <1>1, <1>3, <1>4 DEF RegistryInv, TypeOK
<1>7. \A t \in Sources \ {s} :
        LandedRuns(t)' = LandedRuns(t) /\ LandedEdits(t)' = LandedEdits(t)
  BY <1>1, <1>2, <1>3 DEF LandedRuns, LandedEdits, RegistryInv, TypeOK, Writers
<1>8. LandedEdits(s)' = LandedEdits(s) \cup (IF x \in Runs THEN {} ELSE {x})
  BY <1>1, <1>2, <1>3, RegistryAssumption DEF LandedEdits, Writers
<1>9. Cardinality(LandedRuns(s)') = IF x \in Runs THEN Cardinality(LandedRuns(s)) + 1
                                                  ELSE Cardinality(LandedRuns(s))
  <2>1. IsFiniteSet(LandedRuns(s))
    <3>1. LandedRuns(s) \subseteq Runs
      BY DEF LandedRuns, RegistryInv, TypeOK
    <3> QED
      BY <3>1, RegistryAssumption, FS_Subset
  <2>2. Cardinality(LandedRuns(s)) \in Nat
    BY <2>1, FS_CardinalityType
  <2>3. CASE x \in Runs
    <3>1. x \in saved
      BY <1>1, <2>3 DEF RegistryInv, SavedInv
    <3>2. x \notin LandedRuns(s) /\ LandedRuns(s)' = LandedRuns(s) \cup {x}
      BY <1>1, <1>2, <1>3, <3>1 DEF LandedRuns, RegistryInv, TypeOK, Writers
    <3>3. Cardinality(LandedRuns(s) \cup {x}) = Cardinality(LandedRuns(s)) + 1
      BY <2>1, <3>2, FS_AddElement
    <3> QED
      BY <2>3, <3>2, <3>3
  <2>4. CASE x \notin Runs
    <3>1. LandedRuns(s)' = LandedRuns(s)
      BY <1>1, <1>2, <2>4 DEF LandedRuns, RegistryInv, TypeOK, Writers
    <3> QED
      BY <2>2, <2>4, <3>1
  <2> QED
    BY <2>3, <2>4
<1>10. FilesInv'
  <2>1. Tells(Current(s, c), Cardinality(LandedRuns(s)'), LandedEdits(s)') /\ Good(s, Current(s, c))
    <3>1. Current(s, c) = c /\ Good(s, c)
      BY <1>3, <1>5 DEF Adds, Current
    <3>2. CASE x \in Runs
      BY <1>5, <1>8, <1>9, <3>1, <3>2 DEF Adds, Tells
    <3>3. CASE x \notin Runs
      <4>1. c.count = Cardinality(LandedRuns(s)) /\ c.pins = LandedEdits(s) \cup {x}
        BY <1>5, <3>3 DEF Adds, Tells
      <4>2. LandedEdits(s)' = LandedEdits(s) \cup {x}
        BY <1>8, <3>3
      <4>3. Cardinality(LandedRuns(s)') = Cardinality(LandedRuns(s))
        BY <1>9, <3>3
      <4> QED
        BY <3>1, <4>1, <4>2, <4>3 DEF Tells
    <3> QED
      BY <3>2, <3>3
  <2>2. ASSUME NEW t \in Sources \ {s}
        PROVE  /\ Tells(Current(t, reg'[t]), Cardinality(LandedRuns(t)'), LandedEdits(t)')
               /\ t \in Served => Good(t, Current(t, reg'[t]))
    BY <1>6, <1>7 DEF Lossless, FilesInv
  <2>3. ASSUME NEW t \in Sources
        PROVE  /\ Tells(Current(t, reg'[t]), Cardinality(LandedRuns(t)'), LandedEdits(t)')
               /\ t \in Served => Good(t, Current(t, reg'[t]))
    <3>1. CASE t = s
      BY <1>6, <2>1, <3>1
    <3>2. CASE t # s
      BY <2>2, <3>2
    <3> QED
      BY <3>1, <3>2
  <2> QED
    BY <2>3 DEF FilesInv, Served
<1>11. TurnsInv'
  BY SMT, <1>1, <1>2 DEF Lossless, TurnsInv, Active
<1>12. HeldInv'
  <2>1. \A y \in Writers : writer'[y].step \in {"write", "rename"} =>
          /\ writer[y].step \in {"write", "rename"} /\ SourceOf[y] \in Sources \ {s}
    BY <1>1, <1>2, <1>3, RegistryAssumption DEF Lossless, TurnsInv, Active
  <2> QED
    BY <1>2, <1>7, <2>1 DEF Lossless, HeldInv
<1> QED
  BY <1>10, <1>11, <1>12 DEF Lossless

(* Listings, and stuttering.                                               *)
LEMMA UnchangedLossless ==
  ASSUME Lossless, UNCHANGED <<reg, writer, saved>> PROVE Lossless'
<1>1. \A t \in Sources : LandedRuns(t)' = LandedRuns(t) /\ LandedEdits(t)' = LandedEdits(t)
  BY DEF LandedRuns, LandedEdits
<1>2. FilesInv'
  BY <1>1, FilesStay DEF Lossless
<1>3. TurnsInv'
  BY DEF Lossless, TurnsInv
<1>4. HeldInv'
  <2>1. \A y \in Writers : SourceOf[y] \in Sources
    BY RegistryAssumption
  <2> QED
    BY <1>1, <2>1 DEF Lossless, HeldInv
<1> QED
  BY <1>2, <1>3, <1>4 DEF Lossless

(* Every step of writers that take turns.                                  *)
LEMMA LosslessStep ==
  ASSUME RegistryInv, LosslessInv, [Next]_vars PROVE LosslessInv'
<1>1. setup' = setup
  BY DEF Next, vars, WriterStep, Backup, StartEdit, Load, Write, Rename, Sync, Kill, Delete,
     Rot, ListBegin, ListNext, ListFail, ListEnd, PowerLoss
<1>2. Orderly' <=> Orderly
  BY <1>1 DEF Orderly
<1> SUFFICES ASSUME Orderly PROVE Lossless'
  BY <1>2 DEF LosslessInv, Lossless
<1>3. Lossless
  BY DEF LosslessInv, Lossless
<1>4. ASSUME NEW x \in Writers, WriterStep(x) PROVE Lossless'
  BY <1>3, <1>4, StartLossless, LoadLossless, WriteLossless, RenameLossless DEF WriterStep
<1>5. /\ ~ \E x \in Writers : Kill(x)
      /\ ~ \E s \in Sources : Delete(s) \/ Rot(s)
      /\ ~ PowerLoss
  BY DEF Orderly, Kill, Delete, Rot, PowerLoss
<1>6. CASE ListBegin \/ (\E s \in Sources : ListNext(s)) \/ ListFail \/ ListEnd \/ UNCHANGED vars
  <2>1. UNCHANGED <<reg, writer, saved>>
    BY <1>6 DEF ListBegin, ListNext, ListFail, ListEnd, vars
  <2> QED
    BY <1>3, <2>1, UnchangedLossless
<1> QED
  BY <1>4, <1>5, <1>6 DEF Next

(* At the start a source that is written has no registry, or one that      *)
(* loads.                                                                  *)
LEMMA LosslessInitial ==
  ASSUME \A i \in InitFiles, s \in Served : i[s] # None => Good(s, i[s]),
         Init
  PROVE  LosslessInv
<1>1. reg \in InitFiles /\ saved = {} /\ writer = [x \in Writers |-> NoWriter]
  BY DEF Init
<1>2. \A x \in Writers : writer[x].step = "idle"
  BY <1>1 DEF NoWriter
<1>3. TurnsInv /\ HeldInv
  BY <1>2 DEF TurnsInv, HeldInv, Active
<1>4. \A s \in Sources : LandedRuns(s) = {} /\ LandedEdits(s) = {}
  BY <1>1, <1>2 DEF LandedRuns, LandedEdits, Writers
<1>5. ASSUME NEW s \in Sources
      PROVE  /\ Tells(Current(s, reg[s]), Cardinality(LandedRuns(s)), LandedEdits(s))
             /\ s \in Served => Good(s, Current(s, reg[s]))
  <2>1. Cardinality(LandedRuns(s)) = 0
    BY <1>4, FS_EmptySet
  <2>2. PICK r : r = Current(s, reg[s])
    OBVIOUS
  <2>3. CASE reg[s] = None
    <3>1. r = Fresh(s)
      BY <2>2, <2>3 DEF Current
    <3>2. /\ r.count = 0 /\ r.pins = {} /\ r.id = s /\ r.intact = TRUE
          /\ r.version = CurrentVersion
      BY <3>1, FreshIs
    <3>3. Good(s, r)
      BY SMT, <3>2 DEF Good, CurrentVersion
    <3>4. Tells(r, Cardinality(LandedRuns(s)), LandedEdits(s))
      BY <1>4, <2>1, <3>2 DEF Tells
    <3> QED
      BY <2>2, <3>3, <3>4
  <2>4. CASE reg[s] # None
    <3>1. r = reg[s]
      BY <2>2, <2>4 DEF Current
    <3>2. r.count = 0 /\ r.pins = {}
      BY <1>1, <2>4, <3>1, RegistryAssumption
    <3>3. s \in Served => Good(s, r)
      BY <1>1, <2>4, <3>1
    <3> QED
      BY <1>4, <2>1, <2>2, <3>2, <3>3 DEF Tells
  <2> QED
    BY <2>3, <2>4
<1>6. FilesInv
  BY <1>5 DEF FilesInv
<1> QED
  BY <1>3, <1>6 DEF LosslessInv

(* Where writers take turns and no call fails, updateSourceRegistry and    *)
(* the application's edits lose no snapshot and no pin.                    *)
THEOREM NoUpdateLost ==
  ASSUME \A i \in InitFiles, s \in Served : i[s] # None => Good(s, i[s])
  PROVE  Spec => []NothingLost
<1>1. Init => LosslessInv
  BY LosslessInitial
<1>2. RegistryInv /\ LosslessInv /\ [Next]_vars => LosslessInv'
  BY LosslessStep
<1>3. ASSUME RegistryInv, LosslessInv PROVE NothingLost
  <2> SUFFICES ASSUME setup.serial, ~setup.deletes, setup.faults \subseteq {"manifest"},
                      NEW s \in Sources,
                      \A x \in Writers : SourceOf[x] = s => writer[x].step \in {"idle", "done"}
               PROVE  LET pins == {x \in Edits : SourceOf[x] = s /\ writer[x].step = "done"}
                          r == IF reg[s] = None THEN Fresh(s) ELSE reg[s] IN
                      r.count = Cardinality(RunsOf(s)) /\ r.pins = pins
    BY DEF NothingLost
  <2>1. Orderly
    <3>1. setup.serial \in BOOLEAN /\ setup.deletes \in BOOLEAN
      BY <1>3 DEF RegistryInv, TypeOK, Setup
    <3> QED
      BY <3>1 DEF Orderly
  <2>2. RunsOf(s) = LandedRuns(s)
    BY <1>3 DEF RunsOf, LandedRuns, RegistryInv, SavedInv, TypeOK, Writers
  <2>3. LandedEdits(s) = {x \in Edits : SourceOf[x] = s /\ writer[x].step = "done"}
    BY DEF LandedEdits, Writers
  <2>4. Tells(Current(s, reg[s]), Cardinality(RunsOf(s)), LandedEdits(s))
    BY <1>3, <2>1, <2>2 DEF LosslessInv, FilesInv
  <2> QED
    BY <2>3, <2>4 DEF Tells, Current
<1> QED
  BY <1>1, <1>2, <1>3, RegistryInvariant, PTL DEF Spec

-----------------------------------------------------------------------------
(* Listings                                                                *)

Lists == [step : {"idle", "walk", "done"}, todo : SUBSET Sources, ok : SUBSET Sources,
          failed : SUBSET Sources, stay : SUBSET Sources]

(* A registry that stays is there, and yet to be met or accounted for.     *)
ListInv ==
    /\ list \in Lists
    /\ \A s \in list.stay : reg[s] # None /\ s \in list.todo \cup list.ok \cup list.failed
    /\ list.step = "done" => list.todo = {}
    /\ \A x \in Writers : writer[x].step \in {"write", "rename"} => writer[x].reg # None

(* Writers replace a file by a file.                                       *)
LEMMA WriterLists ==
  ASSUME RegistryInv, ListInv, NEW x \in Writers, WriterStep(x) PROVE ListInv'
<1>1. list' = list
  BY DEF WriterStep, Backup, StartEdit, Load, Write, Rename, Sync
<1>2. CASE Load(x) /\ ~To(x, "done")
  <2>1. PICK s \in Sources : s = SourceOf[x]
    BY RegistryAssumption
  <2>2. PICK r \in Registries :
          writer' = [writer EXCEPT ![x] = [step |-> "write", reg |-> Changed(x, r)]]
    <3>1. Fresh(s) \in Registries /\ (Loads(s) => reg[s] \in Registries)
      BY FreshIs, FilesSound DEF Loads
    <3> QED
      BY <1>2, <2>1, <3>1 DEF Load
  <2>3. PICK c \in Registries : c = Changed(x, r)
    BY ChangedType
  <2>4. writer'[x].reg = c /\ \A y \in Writers \ {x} : writer'[y] = writer[y]
    BY <2>2, <2>3 DEF RegistryInv, TypeOK
  <2>5. \A y \in Writers : writer'[y].step \in {"write", "rename"} => writer'[y].reg # None
    BY <2>4, RegistryAssumption DEF ListInv
  <2>6. reg' = reg
    BY <1>2 DEF Load
  <2> QED
    BY <1>1, <2>5, <2>6 DEF ListInv
<1>3. CASE ~Load(x) \/ To(x, "done")
  <2>1. PICK st \in Steps \ {"write"} :
          To(x, st) /\ (st = "rename" => writer[x].step = "write")
    BY SMT, <1>3 DEF WriterStep, Backup, StartEdit, Write, Rename, Sync, Steps
  <2>2. /\ writer'[x].step = st
        /\ \A y \in Writers : /\ writer'[y].reg = writer[y].reg
                              /\ y # x => writer'[y].step = writer[y].step
    BY <2>1, Stepped DEF RegistryInv
  <2>3. \A y \in Writers : writer'[y].step \in {"write", "rename"} => writer'[y].reg # None
    BY <2>1, <2>2 DEF ListInv
  <2>4. \A s \in Sources : reg[s] # None => reg'[s] # None
    <3>1. CASE Rename(x)
      <4>1. writer[x].reg # None
        BY <3>1 DEF Rename, ListInv
      <4>2. reg' = reg \/ reg' = [reg EXCEPT ![SourceOf[x]] = writer[x].reg]
        BY <3>1 DEF Rename
      <4> QED
        BY <4>1, <4>2, FilesSound
    <3>2. CASE ~Rename(x)
      <4>1. reg' = reg
        BY <3>2 DEF WriterStep, Backup, StartEdit, Load, Write, Sync
      <4> QED
        BY <4>1
    <3> QED
      BY <3>1, <3>2
  <2>5. list.stay \subseteq Sources
    BY DEF ListInv, Lists
  <2> QED
    BY <1>1, <2>3, <2>4, <2>5 DEF ListInv
<1> QED
  BY <1>2, <1>3

(* The listing meets one registry.                                         *)
LEMMA ListNextLists ==
  ASSUME RegistryInv, ListInv, NEW s \in Sources, ListNext(s) PROVE ListInv'
<1>1. UNCHANGED <<reg, writer>> /\ list \in Lists /\ list.step = "walk"
  BY DEF ListNext, ListInv
<1>2. /\ list' \in Lists /\ list'.step = "walk" /\ list'.stay = list.stay
      /\ list.todo \subseteq list'.todo \cup {s}
      /\ list.ok \subseteq list'.ok /\ list.failed \subseteq list'.failed
      /\ reg[s] # None => s \in list'.ok \cup list'.failed
  <2>1. CASE list' = [list EXCEPT !.todo = @ \ {s}, !.ok = @ \cup {s}]
    BY <1>1, <2>1 DEF Lists
  <2>2. CASE list' = [list EXCEPT !.todo = @ \ {s}, !.failed = @ \cup {s}]
    BY <1>1, <2>2 DEF Lists
  <2>3. CASE reg[s] = None /\ list' = [list EXCEPT !.todo = @ \ {s}]
    BY <1>1, <2>3 DEF Lists
  <2> QED
    BY <2>1, <2>2, <2>3 DEF ListNext
<1> QED
  BY <1>1, <1>2 DEF ListInv

(* A registry that is removed is no longer one that stays.                 *)
LEMMA DeleteLists ==
  ASSUME RegistryInv, ListInv, NEW s \in Sources, Delete(s) PROVE ListInv'
<1>1. /\ writer' = writer /\ list \in Lists /\ reg' = [reg EXCEPT ![s] = None]
      /\ list' = [list EXCEPT !.stay = @ \ {s}]
  BY DEF Delete, ListInv
<1>2. /\ list' \in Lists /\ list'.step = list.step /\ list'.stay = list.stay \ {s}
      /\ list'.todo = list.todo /\ list'.ok = list.ok /\ list'.failed = list.failed
  BY <1>1 DEF Lists
<1>3. \A t \in Sources \ {s} : reg'[t] = reg[t]
  BY <1>1, FilesSound
<1>4. list.stay \subseteq Sources
  BY <1>1 DEF Lists
<1> QED
  BY <1>1, <1>2, <1>3, <1>4 DEF ListInv

(* A damaged registry stays.                                               *)
LEMMA RotLists ==
  ASSUME RegistryInv, ListInv, NEW s \in Sources, Rot(s) PROVE ListInv'
<1>1. UNCHANGED <<list, writer>> /\ reg[s] # None
  BY DEF Rot
<1>2. PICK r \in Registries : r = reg[s]
  BY <1>1, FilesSound
<1>3. PICK d \in Registries : d = [r EXCEPT !.intact = FALSE]
  BY DEF Registries
<1>4. reg' = [reg EXCEPT ![s] = d] /\ d # None
  BY <1>2, <1>3, RegistryAssumption DEF Rot
<1>5. \A t \in Sources : reg[t] # None => reg'[t] # None
  BY <1>4, FilesSound
<1>6. list.stay \subseteq Sources
  BY DEF ListInv, Lists
<1> QED
  BY <1>1, <1>5, <1>6 DEF ListInv

(* The processes that die take no registry with them; a power loss takes   *)
(* the listing.                                                            *)
LEMMA DeathLists ==
  ASSUME RegistryInv, ListInv, (\E x \in Writers : Kill(x)) \/ PowerLoss PROVE ListInv'
<1>1. PICK xs : Die(xs)
  BY DEF Kill, PowerLoss
<1>2. \A y \in Writers : writer'[y].step \in {"write", "rename"} => writer'[y].reg # None
  <2>1. writer \in [Writers -> Held]
    BY DEF RegistryInv, TypeOK
  <2>2. \A y \in Writers : writer'[y] = writer[y] \/ writer'[y].step = "dead"
    BY <1>1, <2>1 DEF Die, Held
  <2> QED
    BY <2>2 DEF ListInv
<1>3. UNCHANGED <<list, reg>> \/ list' = NoList
  BY DEF Kill, PowerLoss
<1>4. CASE UNCHANGED <<list, reg>>
  BY <1>2, <1>4 DEF ListInv
<1>5. CASE list' = NoList
  <2>1. list' \in Lists /\ list'.step = "idle" /\ list'.stay = {}
    BY <1>5 DEF NoList, Lists
  <2> QED
    BY <1>2, <2>1 DEF ListInv
<1> QED
  BY <1>3, <1>4, <1>5

(* Every step keeps the account.                                           *)
LEMMA ListStep == ASSUME RegistryInv, ListInv, [Next]_vars PROVE ListInv'
<1>1. CASE ListBegin
  <2> DEFINE there == {s \in Sources : reg[s] # None}
  <2>1. /\ list' = [step |-> "walk", todo |-> there, ok |-> {}, failed |-> {}, stay |-> there]
        /\ UNCHANGED <<reg, writer>>
    BY <1>1 DEF ListBegin
  <2>2. list' \in Lists /\ list'.step = "walk" /\ list'.stay = there /\ list'.todo = there
    BY <2>1 DEF Lists
  <2> QED
    BY <2>1, <2>2 DEF ListInv
<1>2. CASE ListFail
  <2>1. list' \in Lists /\ list'.step = "idle" /\ list'.stay = {} /\ writer' = writer
    BY <1>2 DEF ListFail, NoList, Lists
  <2> QED
    BY <2>1 DEF ListInv
<1>3. CASE ListEnd
  <2>1. UNCHANGED <<reg, writer>> /\ list.todo = {} /\ list \in Lists
    BY <1>3 DEF ListEnd, ListInv
  <2>2. /\ list' \in Lists /\ list'.step = "done" /\ list'.stay = list.stay
        /\ list'.todo = list.todo /\ list'.ok = list.ok /\ list'.failed = list.failed
    BY <1>3, <2>1 DEF ListEnd, Lists
  <2> QED
    BY <2>1, <2>2 DEF ListInv
<1>4. CASE UNCHANGED vars
  BY <1>4 DEF vars, ListInv
<1> QED
  BY <1>1, <1>2, <1>3, <1>4, WriterLists, ListNextLists, DeleteLists, RotLists, DeathLists
     DEF Next

(* ListSourceRegistries reports every registry that is there all the while *)
(* among those that loaded or among the failures, whatever else happens.   *)
THEOREM ListingComplete == Spec => []ListAccountsForAll
<1>1. Init => ListInv
  <2> SUFFICES ASSUME Init PROVE ListInv
    OBVIOUS
  <2>1. list \in Lists /\ list.step = "idle" /\ list.stay = {}
    BY DEF Init, NoList, Lists
  <2>2. \A x \in Writers : writer[x].step = "idle"
    BY DEF Init, NoWriter
  <2> QED
    BY <2>1, <2>2 DEF ListInv
<1>2. RegistryInv /\ ListInv /\ [Next]_vars => ListInv'
  BY ListStep
<1>3. ListInv => ListAccountsForAll
  BY DEF ListInv, ListAccountsForAll
<1> QED
  BY <1>1, <1>2, <1>3, RegistryInvariant, PTL DEF Spec
===========================================================================
